---------------------------- MODULE Spec2Model ----------------------------
(***************************************************************************)
(* The check-evaluation engine of the HealthCard dashboard: the Google Ads *)
(* check functions, the four Google category runners, the analysis run of  *)
(* google/app.py, the summary of google/components/ui_components.py, and   *)
(* the Meta category runners with the analysis run of meta/app.py.         *)
(*                                                                         *)
(* Numbers: Python floats are modelled as exact rationals <<num, den>>     *)
(* (den > 0, lowest terms); the Python value None is the empty tuple <<>>. *)
(* A pandas table is modelled by its number of rows.                       *)
(***************************************************************************)
EXTENDS Integers, Sequences, FiniteSets, TLC

(***************************************************************************)
(* Bounds of the model.                                                    *)
(***************************************************************************)
\* largest number of entities (campaigns, ad groups, ads, ...) of an account
MaxEntities == 3
\* largest cost, in whole currency units, of one keyword row
MaxCost == 1
\* largest number of API calls that fail during one analysis run
MaxFaults == 1

(***************************************************************************)
(* Rational arithmetic standing for Python float arithmetic.               *)
(***************************************************************************)
None == <<>>

RECURSIVE GCD(_, _)
GCD(a, b) == IF b = 0 THEN a ELSE GCD(b, a % b)

Abs(x) == IF x < 0 THEN -x ELSE x

\* the rational n/d in lowest terms, d # 0
Rat(n, d) ==
    LET s == IF d < 0 THEN -1 ELSE 1
        g == GCD(Abs(n), Abs(d))
    IN  <<(s * n) \div g, (s * d) \div g>>

Int2Rat(i) == <<i, 1>>
RatAdd(x, y) == Rat(x[1] * y[2] + y[1] * x[2], x[2] * y[2])
RatSub(x, y) == Rat(x[1] * y[2] - y[1] * x[2], x[2] * y[2])
RatMul(x, y) == Rat(x[1] * y[1], x[2] * y[2])
RatDiv(x, y) == Rat(x[1] * y[2], x[2] * y[1])
RatLt(x, y) == x[1] * y[2] < y[1] * x[2]
RatLe(x, y) == x[1] * y[2] <= y[1] * x[2]
\* min(x, 100) with the cap forgotten
RatMinUncapped(x, y) == x
RatMin(x, y) == IF RatLe(x, y) THEN x ELSE y
RatMax(x, y) == IF RatLe(x, y) THEN y ELSE x
\* abs(x) forgotten
RatNoAbs(x) == x
RatAbs(x) == <<Abs(x[1]), x[2]>>

\* Python's  k / n * 100
Pct(k, n) == Rat(100 * k, n)

\* Python's  f"{x:.1f}"  for x >= 0 (round to the nearest tenth, ties to even)
Fmt1(x) ==
    LET n == 10 * x[1]
        q == n \div x[2]
        r == n % x[2]
        t == IF 2 * r > x[2] THEN q + 1
             ELSE IF 2 * r = x[2] THEN q + (q % 2)
             ELSE q
    IN  ToString(t \div 10) \o "." \o ToString(t % 10)

\* Python's  f"{x:.0f}"  for x >= 0 (round to the nearest integer, ties to even)
Fmt0(x) ==
    LET q == x[1] \div x[2]
        r == x[1] % x[2]
        t == IF 2 * r > x[2] THEN q + 1
             ELSE IF 2 * r = x[2] THEN q + (q % 2)
             ELSE q
    IN  ToString(t)

(***************************************************************************)
(* Python dicts: a sequence of [key, value] entries in insertion order.    *)
(***************************************************************************)
EmptyDict == <<>>
DictKeys(d) == [i \in 1..Len(d) |-> d[i].key]
DictHas(d, k) == \E i \in 1..Len(d) : d[i].key = k
DictGet(d, k) == d[CHOOSE i \in 1..Len(d) : d[i].key = k].value
\* d[k] = v : a new key goes last, a present key keeps its place
DictSet(d, k, v) ==
    IF DictHas(d, k)
    THEN [i \in 1..Len(d) |-> IF d[i].key = k THEN [key |-> k, value |-> v] ELSE d[i]]
    ELSE Append(d, [key |-> k, value |-> v])
DictValues(d) == [i \in 1..Len(d) |-> d[i].value]


(***************************************************************************)
(* The outcome of calling a Python function: it returns a value or raises. *)
(***************************************************************************)
Return(r) == [raised |-> FALSE, exc |-> "", result |-> r]
Raise(e) == [raised |-> TRUE, exc |-> e, result |-> [status |-> "raised"]]

\* the dict a check function returns; no check sets "name"
CheckResult(status, score, message, details) ==
    [status |-> status, score |-> score, message |-> message, details |-> details]

(***************************************************************************)
(* google/config/constants.py                                              *)
(***************************************************************************)
LIMITED_BUDGET_THRESHOLD == Rat(10, 100)
SPEND_SPLIT_THRESHOLDS == [EXACT |-> Rat(70, 100), PHRASE |-> Rat(20, 100), BROAD |-> Rat(10, 100)]
SPEND_SPLIT_TOLERANCE == Rat(5, 100)
MIN_UNIQUE_RSA_RATIO == Int2Rat(1)
QUALITY_SCORE_THRESHOLDS == [brand |-> 9, non_brand |-> 7, competitor |-> 5]

UNIVERSAL_CHECKS == <<3, 12, 13>>
SEARCH_CHECKS == <<1, 2, 4, 5, 6, 7, 8, 9, 10, 11>>
PMAX_CHECKS == <<14, 15, 16, 17, 18, 19, 20, 21, 22, 23, 24, 25, 26, 27>>
APP_CHECKS == <<28, 29, 30, 31>>

CHECK_DESCRIPTIONS ==
    <<"Contribution of Spends - 70:20:10 (Exact:Phrase:Broad)",
      "Audience in Observation - Remarketing, Inmarket, Affinity",
      "Limited by Budget Campaigns - Should be <10%",
      "Number of RSAs - At least 2 per ad group",
      "Unique RSAs Ratio - At least 1:1",
      "Cross Keyword Negation",
      "Ad Copy Quality - Ad Strength Distribution",
      "4 Unique Sitelinks per RSA",
      "Display Path Added",
      "Weighted Average Quality Score",
      "Percentage of Keywords without Impressions",
      "Conversion Goal - Campaign Specific",
      "Location Targeting - Presence Only",
      "Age Exclusions (PMax)",
      "Brand Exclusions (PMax)",
      "Auto Asset Optimization Off (PMax)",
      "Search Themes Present (PMax)",
      "Search Term Negation (PMax)",
      "Headlines/Descriptions Count (PMax)",
      "Call to Action Not Automated",
      "Sitelinks >= 4 (PMax)",
      "Display Path Present (PMax)",
      "Callouts Present (PMax)",
      "Structured Snippets Present (PMax)",
      "5 Images & 1 Video in Asset Groups (PMax)",
      "PMax Spend Split - 80:10:10",
      "Product Coverage through Ads",
      "Single In-App Action Optimization",
      "Deferred Deep Linking",
      "Custom Store Listing",
      "Headlines/Descriptions >= 5 each (App)">>

(***************************************************************************)
(* google/services/google_ads_client.py                                    *)
(*                                                                         *)
(* The outcome of the API call made by a query is "ok",                    *)
(* "GoogleAdsException", or the message of any other exception.            *)
(* execute_query swallows a GoogleAdsException and returns no rows; any    *)
(* other exception leaves execute_query, and the check function that       *)
(* called it, since no check function has a handler of its own.            *)
(***************************************************************************)
OtherErrors == {"503 Service Unavailable"}
ApiOutcomes == {"ok", "GoogleAdsException"} \cup OtherErrors

\* rows: [total |-> the rows the query matches, bad |-> those of them that
\* the check calling it will find non-compliant]
NoRows == [total |-> 0, bad |-> 0]
execute_query(api, rows) == IF api = "GoogleAdsException" THEN NoRows ELSE rows

\* the NameError of a function that reads the undefined name `compliant`
NameErrorCompliant == "name 'compliant' is not defined"

(***************************************************************************)
(* google/checks/universal_checks.py                                       *)
(***************************************************************************)
check_limited_by_budget(rows) ==
    IF rows.total = 0
    THEN Return(CheckResult("info", None, "No active campaigns found", 0))
    ELSE LET total_campaigns == rows.total
             limited_count == rows.bad
             limited_percentage == Rat(limited_count, total_campaigns)
             score == RatMul(limited_percentage, Int2Rat(100))
             status == IF RatLt(limited_percentage, LIMITED_BUDGET_THRESHOLD)
                       THEN "pass" ELSE "fail"
         IN  Return(CheckResult(status, score,
                 ToString(limited_count) \o "/" \o ToString(total_campaigns)
                     \o " campaigns (" \o Fmt1(score) \o "%) limited by budget",
                 limited_count))

check_conversion_goal(rows) ==
    IF rows.total = 0
    THEN Return(CheckResult("info", None, "No active campaigns found", 0))
    ELSE LET total == rows.total
             issues == rows.bad
             score == Pct(issues, total)
             status == IF score = Int2Rat(0) THEN "pass"
                       ELSE IF RatLe(score, Int2Rat(20)) THEN "warning" ELSE "fail"
         IN  Return(CheckResult(status, score,
                 ToString(issues) \o "/" \o ToString(total)
                     \o " campaigns missing campaign-specific conversion goals",
                 issues))

check_location_targeting(rows) ==
    IF rows.total = 0
    THEN Return(CheckResult("info", None, "No active campaigns found", 0))
    ELSE LET total == rows.total
             non_compliant_count == rows.bad
             score == Pct(non_compliant_count, total)
             status == IF score = Int2Rat(0) THEN "pass"
                       ELSE IF RatLe(score, Int2Rat(25)) THEN "warning" ELSE "fail"
         IN  Return(CheckResult(status, score,
                 ToString(non_compliant_count) \o "/" \o ToString(total)
                     \o " campaigns have incorrect location targeting",
                 non_compliant_count))

(***************************************************************************)
(* google/checks/search_checks.py                                          *)
(***************************************************************************)
\* the warning band closed one step too early: score < cutoff
BandExclusive(score, cutoff) ==
    IF score = Int2Rat(0) THEN "pass"
    ELSE IF RatLt(score, Int2Rat(cutoff)) THEN "warning" ELSE "fail"

\* the band of most count-based checks:
\*   "pass" if score == 0 else "warning" if score <= cutoff else "fail"
Band(score, cutoff) ==
    IF score = Int2Rat(0) THEN "pass"
    ELSE IF RatLe(score, Int2Rat(cutoff)) THEN "warning" ELSE "fail"

\* Check 1. rows.total keyword rows; spend: the cost summed by match type.
check_spend_split(rows, spend) ==
    IF rows.total = 0
    THEN Return(CheckResult("info", None, "No keyword data found for search campaigns", 0))
    ELSE LET total_spend == spend.EXACT + spend.PHRASE + spend.BROAD
         IN  IF total_spend = 0
             THEN Return(CheckResult("info", None, "No spend data found", 0))
             ELSE LET exact_pct == Rat(spend.EXACT, total_spend)
                      phrase_pct == Rat(spend.PHRASE, total_spend)
                      broad_pct == Rat(spend.BROAD, total_spend)
                      exact_ok == RatLe(RatSub(SPEND_SPLIT_THRESHOLDS.EXACT, SPEND_SPLIT_TOLERANCE),
                                        exact_pct)
                      status == IF exact_ok THEN "pass" ELSE "fail"
                      deviation == RatAbs(RatSub(RatMul(exact_pct, Int2Rat(100)), Int2Rat(70)))
                      score == RatMin(RatMul(deviation, Int2Rat(2)), Int2Rat(100))
                  IN  Return(CheckResult(status, score,
                          "Exact: " \o Fmt1(RatMul(exact_pct, Int2Rat(100)))
                              \o "%, Phrase: " \o Fmt1(RatMul(phrase_pct, Int2Rat(100)))
                              \o "%, Broad: " \o Fmt1(RatMul(broad_pct, Int2Rat(100))) \o "%",
                          3))

\* Check 2. campaign_rows: the enabled search campaigns; no test for emptiness.
check_audience_observation(campaign_rows) ==
    LET total == campaign_rows.total
        non_compliant_count == campaign_rows.bad
        compliant_count == total - non_compliant_count
        score == IF total > 0 THEN Pct(non_compliant_count, total) ELSE Int2Rat(0)
    IN  Return(CheckResult(Band(score, 20), score,
            ToString(compliant_count) \o "/" \o ToString(total)
                \o " campaigns have all 3 audience types",
            non_compliant_count))

MIN_RSAS_PER_AD_GROUP == 2

\* Check 4. all_ad_groups[i]: the number of enabled RSAs the first query
\* returns for the i-th enabled search ad group, 0 when it returns none
\* (ad_group_rsa_count.get(key, {}).get("count", 0)); no test for emptiness.
\* The result carries, next to the number of rows of its details table,
\* the rows themselves.
check_rsa_count(all_ad_groups) ==
    LET Row(i) == [ad_group_id |-> i,
                   rsa_count |-> all_ad_groups[i],
                   issue |-> "Has " \o ToString(all_ad_groups[i]) \o " RSAs, needs at least "
                                 \o ToString(MIN_RSAS_PER_AD_GROUP)]
        ad_groups_with_issues ==
            SelectSeq([i \in 1..Len(all_ad_groups) |-> Row(i)],
                      LAMBDA r : ~(r.rsa_count >= MIN_RSAS_PER_AD_GROUP))
        total == Len(all_ad_groups)
        non_compliant_count == Len(ad_groups_with_issues)
        compliant_count == total - non_compliant_count
        score == IF total > 0 THEN Pct(non_compliant_count, total) ELSE Int2Rat(0)
    IN  Return([details_rows |-> ad_groups_with_issues] @@
               CheckResult(Band(score, 10), score,
                   ToString(compliant_count) \o "/" \o ToString(total) \o " ad groups have "
                       \o ToString(MIN_RSAS_PER_AD_GROUP) \o "+ RSAs",
                   non_compliant_count))

\* Python's  f"{x:.2f}"  for x >= 0
Fmt2(x) ==
    LET n == 100 * x[1]
        q == n \div x[2]
        r == n % x[2]
        t == IF 2 * r > x[2] THEN q + 1
             ELSE IF 2 * r = x[2] THEN q + (q % 2)
             ELSE q
        c == t % 100
    IN  ToString(t \div 100) \o "." \o (IF c < 10 THEN "0" ELSE "") \o ToString(c)

\* the list kept in the order it comes in
unsorted(seq) == seq

\* Python's sorted() on a list of texts
sorted(seq) ==
    LET insert(s, x) ==
            LET k == Cardinality({i \in 1..Len(s) : s[i] <= x})
            IN  SubSeq(s, 1, k) \o <<x>> \o SubSeq(s, k + 1, Len(s))
        upto[i \in 0..Len(seq)] == IF i = 0 THEN <<>> ELSE insert(upto[i - 1], seq[i])
    IN  upto[Len(seq)]

\* Check 5, the loop over the enabled RSAs [ad_group, headlines,
\* descriptions]: the ad groups seen and the distinct signatures
count_unique_rsas(rows) ==
    LET signature(row) == <<sorted(row.headlines), sorted(row.descriptions)>>
        unique_rsas == {signature(rows[i]) : i \in 1..Len(rows)}
        total_ad_groups == {rows[i].ad_group : i \in 1..Len(rows)}
    IN  [unique_count |-> Cardinality(unique_rsas),
         ad_group_count |-> Cardinality(total_ad_groups)]

\* Check 5. unique_count distinct RSA signatures, ad_group_count ad groups with an RSA.
check_unique_rsas_ratio(unique_count, ad_group_count) ==
    IF ad_group_count = 0
    THEN Return(CheckResult("info", None, "No search ad groups found", 0))
    ELSE LET ratio == Rat(unique_count, ad_group_count)
             status == IF RatLe(MIN_UNIQUE_RSA_RATIO, ratio) THEN "pass" ELSE "fail"
             gap == RatMax(Int2Rat(0), RatSub(MIN_UNIQUE_RSA_RATIO, ratio))
             score == RatMin(RatMul(gap, Int2Rat(100)), Int2Rat(100))
         IN  Return(CheckResult(status, score,
                 "Unique RSAs: " \o ToString(unique_count) \o ", Ad Groups: "
                     \o ToString(ad_group_count) \o ", Ratio: " \o Fmt2(ratio) \o ":1",
                 3))

\* str.lower() left out: the text keeps its case
lower_keep_case(text) == text

\* str.lower(). A keyword text is a word and the case it is written in.
lower(text) == [text EXCEPT !.upper = FALSE]

\* Check 6, the counting loop. campaigns: a sequence of campaigns, each a
\* sequence of ad groups [keywords, negatives]: the texts of the ad group's
\* positive keyword rows and the [text, match_type] of its negative keyword
\* rows. An ad group enters campaign_data["ad_groups"] through a positive
\* row only; only EXACT negatives are collected.
cross_keyword_checks(campaigns) ==
    LET ad_group_ids(c) == {a \in 1..Len(campaigns[c]) : campaigns[c][a].keywords # {}}
        keywords(c, a) == {lower(t) : t \in campaigns[c][a].keywords}
        negatives(c, a) ==
            {lower(r.text) : r \in {x \in campaigns[c][a].negatives : x.match_type = "EXACT"}}
        checks(c) ==
            IF Cardinality(ad_group_ids(c)) < 2 THEN {}
            ELSE UNION {UNION {{<<c, a, k, o>> : o \in ad_group_ids(c) \ {a}} :
                                  k \in keywords(c, a)} : a \in ad_group_ids(c)}
        all_checks == UNION {checks(c) : c \in 1..Len(campaigns)}
        passed == {t \in all_checks : t[3] \in negatives(t[1], t[4])}
    IN  [total_checks |-> Cardinality(all_checks),
         passed_checks |-> Cardinality(passed)]

\* Check 6. total_checks (source ad group, keyword, other ad group) triples,
\* passed_checks of them negated; details holds at most 100 rows.
check_cross_keyword_negation(total_checks, passed_checks) ==
    IF total_checks = 0
    THEN Return(CheckResult("info", None,
             "No campaigns with multiple ad groups found for cross-negation", 0))
    ELSE LET score == Pct(total_checks - passed_checks, total_checks)
             status == IF RatLe(score, Int2Rat(10)) THEN "pass"
                       ELSE IF RatLe(score, Int2Rat(30)) THEN "warning" ELSE "fail"
             missing == total_checks - passed_checks
         IN  Return(CheckResult(status, score,
                 ToString(passed_checks) \o "/" \o ToString(total_checks)
                     \o " cross-negations in place (" \o Fmt1(score) \o "%)",
                 IF missing > 100 THEN 100 ELSE missing))

\* Check 7. rows.total enabled RSAs, rows.bad of them not EXCELLENT or GOOD;
\* strengths: the number of distinct ad strengths (the rows of the summary
\* table), poor: the ads of strength POOR, PENDING or UNKNOWN ("issues").
check_ad_copy_quality(rows, strengths, poor) ==
    LET total_ads == rows.total
        excellent_good == rows.total - rows.bad
        poor_average == total_ads - excellent_good
        score == IF total_ads > 0 THEN Pct(poor_average, total_ads) ELSE Int2Rat(0)
        status == IF RatLe(score, Int2Rat(30)) THEN "pass"
                  ELSE IF RatLe(score, Int2Rat(50)) THEN "warning" ELSE "fail"
    IN  Return([issues |-> poor] @@
               CheckResult(status, score,
                   "Excellent/Good: " \o ToString(excellent_good) \o "/" \o ToString(total_ads)
                       \o " (" \o Fmt1(score) \o "%)",
                   strengths))

\* Check 8. all_campaigns: the enabled search campaigns; no test for emptiness.
check_sitelinks(all_campaigns) ==
    LET total == all_campaigns.total
        non_compliant_count == all_campaigns.bad
        compliant_count == total - non_compliant_count
        score == IF total > 0 THEN Pct(non_compliant_count, total) ELSE Int2Rat(0)
    IN  Return(CheckResult(Band(score, 20), score,
            ToString(compliant_count) \o "/" \o ToString(total)
                \o " campaigns have 4+ sitelinks",
            non_compliant_count))

\* Check 9. rows: the enabled RSAs; no test for emptiness.
check_display_path(rows) ==
    LET total == rows.total
        non_compliant_count == rows.bad
        compliant_count == total - non_compliant_count
        score == IF total > 0 THEN Pct(non_compliant_count, total) ELSE Int2Rat(0)
    IN  Return(CheckResult(Band(score, 10), score,
            ToString(compliant_count) \o "/" \o ToString(total)
                \o " ads have display path set",
            non_compliant_count))

\* Python's "sub in text" for strings. A text written in capitals holds no
\* lower-case substring.
str_in(sub, text) ==
    /\ ~text.upper
    /\ \E i \in 1..(Len(text.word) - Len(sub) + 1) :
           SubSeq(text.word, i, i + Len(sub) - 1) = sub

\* the competitor test made before the brand test
ad_group_type_competitor_first(ad_group_name) ==
    IF \E kw \in {"competitor", "competitive", "comp"} : str_in(kw, ad_group_name)
    THEN "competitor"
    ELSE IF \E kw \in {"brand", "branded"} : str_in(kw, ad_group_name)
         THEN "brand" ELSE "non_brand"

\* Check 10, the list a keyword of the (lower-cased) ad group name goes to
ad_group_type(ad_group_name) ==
    LET AD_GROUP_TYPE_KEYWORDS ==
            [brand |-> {"brand", "branded"},
             competitor |-> {"competitor", "competitive", "comp"}]
    IN  IF \E kw \in AD_GROUP_TYPE_KEYWORDS.brand : str_in(kw, ad_group_name)
        THEN "brand"
        ELSE IF \E kw \in AD_GROUP_TYPE_KEYWORDS.competitor : str_in(kw, ad_group_name)
             THEN "competitor" ELSE "non_brand"

\* Check 10. A segment's data: [keywords |-> the number of its keywords with a
\* usable quality score, weight |-> the sum of quality_score * impressions,
\* impressions |-> the sum of impressions].
NoData == [keywords |-> 0, weight |-> 0, impressions |-> 0]

\* Check 10, the loop over the rows [ad_group_name, quality_score,
\* impressions]: a keyword without quality score (None or 0) is skipped, the
\* others are appended to the list of their ad group's type.
categorize_keywords(rows) ==
    LET scored == SelectSeq(rows, LAMBDA row :
                      ~(row.quality_score = None \/ row.quality_score = Int2Rat(0)))
        data(type) == SelectSeq(scored, LAMBDA row :
                          ad_group_type(lower(row.ad_group_name)) = type)
        summed(d) ==
            LET weight[i \in 0..Len(d)] ==
                    IF i = 0 THEN 0 ELSE weight[i - 1] + d[i].quality_score[1] * d[i].impressions
                impressions[i \in 0..Len(d)] ==
                    IF i = 0 THEN 0 ELSE impressions[i - 1] + d[i].impressions
            IN  [keywords |-> Len(d), weight |-> weight[Len(d)],
                 impressions |-> impressions[Len(d)]]
    IN  [brand_data |-> summed(data("brand")),
         non_brand_data |-> summed(data("non_brand")),
         competitor_data |-> summed(data("competitor"))]

calc_weighted_avg(data) ==
    IF data.keywords = 0 THEN None
    ELSE IF data.impressions > 0 THEN Rat(data.weight, data.impressions) ELSE None

\* Python's truth value of a float or None
Truthy(x) == x # None /\ x # Int2Rat(0)

\* gap / floor * 100, the doubling left out
InvScoreSingle(wqs, floor) ==
    LET gap == RatMax(Int2Rat(0), RatSub(Int2Rat(floor), wqs))
    IN  RatMin(RatMul(RatDiv(gap, Int2Rat(floor)), Int2Rat(100)), Int2Rat(100))

\* min(gap / floor * 100 * 2, 100) with gap = max(0, floor - wqs)
InvScore(wqs, floor) ==
    LET gap == RatMax(Int2Rat(0), RatSub(Int2Rat(floor), wqs))
    IN  RatMin(RatMul(RatDiv(gap, Int2Rat(floor)), Int2Rat(200)), Int2Rat(100))

RECURSIVE SumRat(_)
SumRat(seq) == IF seq = <<>> THEN Int2Rat(0) ELSE RatAdd(Head(seq), SumRat(Tail(seq)))

check_weighted_quality_score(brand_data, non_brand_data, competitor_data) ==
    LET brand_wqs == calc_weighted_avg(brand_data)
        non_brand_wqs == calc_weighted_avg(non_brand_data)
        competitor_wqs == calc_weighted_avg(competitor_data)
        Missed(wqs, floor) == wqs # None /\ RatLt(wqs, Int2Rat(floor))
        issues ==
            (IF Missed(brand_wqs, QUALITY_SCORE_THRESHOLDS.brand) THEN <<"Brand">> ELSE <<>>)
            \o (IF Missed(non_brand_wqs, QUALITY_SCORE_THRESHOLDS.non_brand)
                THEN <<"Non-Brand">> ELSE <<>>)
            \o (IF Missed(competitor_wqs, QUALITY_SCORE_THRESHOLDS.competitor)
                THEN <<"Competitor">> ELSE <<>>)
        results == Cardinality({i \in 1..3 :
                       <<brand_wqs, non_brand_wqs, competitor_wqs>>[i] # None})
        status == IF Len(issues) = 0 THEN "pass" ELSE "fail"
        inv_scores ==
            (IF Truthy(brand_wqs)
             THEN <<InvScore(brand_wqs, QUALITY_SCORE_THRESHOLDS.brand)>> ELSE <<>>)
            \o (IF Truthy(non_brand_wqs)
                THEN <<InvScore(non_brand_wqs, QUALITY_SCORE_THRESHOLDS.non_brand)>> ELSE <<>>)
            \o (IF Truthy(competitor_wqs)
                THEN <<InvScore(competitor_wqs, QUALITY_SCORE_THRESHOLDS.competitor)>> ELSE <<>>)
        overall_score == IF inv_scores # <<>>
                         THEN RatDiv(SumRat(inv_scores), Int2Rat(Len(inv_scores)))
                         ELSE Int2Rat(0)
        Str(wqs) == IF wqs # None THEN Fmt2(wqs) ELSE "N/A"
    IN  Return(CheckResult(status, overall_score,
            "Brand: " \o Str(brand_wqs) \o ", Non-Brand: " \o Str(non_brand_wqs)
                \o ", Competitor: " \o Str(competitor_wqs),
            results))

\* Check 11. rows: the enabled keywords, rows.bad of them with zero impressions;
\* no test for emptiness.
check_keywords_without_impressions(rows) ==
    LET total_keywords == rows.total
        zero_impression_count == rows.bad
        percentage == IF total_keywords > 0 THEN Pct(zero_impression_count, total_keywords)
                      ELSE Int2Rat(0)
        score == RatSub(Int2Rat(100), percentage)
        status == IF RatLt(percentage, Int2Rat(20)) THEN "pass"
                  ELSE IF RatLt(percentage, Int2Rat(40)) THEN "warning" ELSE "fail"
    IN  Return(CheckResult(status, score,
            ToString(zero_impression_count) \o "/" \o ToString(total_keywords)
                \o " keywords (" \o Fmt1(percentage) \o "%) have zero impressions",
            zero_impression_count))

(***************************************************************************)
(* google/checks/pmax_checks.py                                            *)
(***************************************************************************)
\* Checks 14, 15, 17, 18 and 24 format their message with the name
\* `compliant`, which they never bind: with a non-empty universe the return
\* statement raises NameError.
check_age_exclusions(campaigns) ==
    IF campaigns.total = 0
    THEN Return(CheckResult("info", None, "No active Performance Max campaigns found", 0))
    ELSE Raise(NameErrorCompliant)

check_brand_exclusions(campaigns) ==
    IF campaigns.total = 0
    THEN Return(CheckResult("info", None, "No active Performance Max campaigns found", 0))
    ELSE Raise(NameErrorCompliant)

check_search_themes(asset_groups) ==
    IF asset_groups.total = 0
    THEN Return(CheckResult("info", None, "No active asset groups found", 0))
    ELSE Raise(NameErrorCompliant)

check_search_term_negation(campaigns) ==
    IF campaigns.total = 0
    THEN Return(CheckResult("info", None, "No active Performance Max campaigns found", 0))
    ELSE Raise(NameErrorCompliant)

\* Check 19. rows: the asset groups having asset rows, rows.bad short of assets.
check_asset_counts(rows) ==
    IF rows.total = 0
    THEN Return(CheckResult("info", None, "No asset group assets found", 0))
    ELSE LET total == rows.total
             non_compliant_count == rows.bad
             compliant == total - non_compliant_count
             score == Pct(non_compliant_count, total)
         IN  Return(CheckResult(Band(score, 10), score,
                 ToString(compliant) \o "/" \o ToString(total)
                     \o " asset groups meet asset requirements",
                 non_compliant_count))

\* Check 20. all_ags: the enabled asset groups; no test for emptiness.
check_cta_not_automated(all_ags) ==
    LET total == all_ags.total
        non_compliant_count == all_ags.bad
        compliant == total - non_compliant_count
        score == IF total > 0 THEN Pct(non_compliant_count, total) ELSE Int2Rat(0)
    IN  Return(CheckResult(Band(score, 10), score,
            ToString(compliant) \o "/" \o ToString(total)
                \o " asset groups have specific CTAs",
            non_compliant_count))

check_pmax_sitelinks(campaigns) ==
    IF campaigns.total = 0
    THEN Return(CheckResult("info", None, "No active Performance Max campaigns found", 0))
    ELSE LET total == campaigns.total
             non_compliant_count == campaigns.bad
             compliant == total - non_compliant_count
             score == Pct(non_compliant_count, total)
         IN  Return(CheckResult(Band(score, 20), score,
                 ToString(compliant) \o "/" \o ToString(total)
                     \o " PMax campaigns have 4+ sitelinks",
                 non_compliant_count))

check_pmax_display_path(rows) ==
    IF rows.total = 0
    THEN Return(CheckResult("info", None, "No active asset groups found", 0))
    ELSE LET total == rows.total
             non_compliant_count == rows.bad
             compliant == total - non_compliant_count
             score == Pct(non_compliant_count, total)
         IN  Return(CheckResult(Band(score, 10), score,
                 ToString(compliant) \o "/" \o ToString(total)
                     \o " asset groups have display path",
                 non_compliant_count))

check_callouts(campaigns) ==
    IF campaigns.total = 0
    THEN Return(CheckResult("info", None, "No active Performance Max campaigns found", 0))
    ELSE LET total == campaigns.total
             non_compliant_count == campaigns.bad
             compliant == total - non_compliant_count
             score == Pct(non_compliant_count, total)
         IN  Return(CheckResult(Band(score, 20), score,
                 ToString(compliant) \o "/" \o ToString(total)
                     \o " PMax campaigns have callouts",
                 non_compliant_count))

check_structured_snippets(campaigns) ==
    IF campaigns.total = 0
    THEN Return(CheckResult("info", None, "No active Performance Max campaigns found", 0))
    ELSE Raise(NameErrorCompliant)

PMAX_MIN_IMAGES == 5

PMAX_MIN_VIDEOS == 1

\* the product feed not looked at: every asset group judged by its media
count_media_issues_without_feed(asset_group_media) ==
    LET short(media) == media.images < PMAX_MIN_IMAGES \/ media.videos < PMAX_MIN_VIDEOS
    IN  [rows |-> [total |-> Len(asset_group_media),
                   bad |-> Cardinality({i \in 1..Len(asset_group_media) :
                               short(asset_group_media[i])})],
         with_feed |-> 0]

\* Check 25, the loop over asset_group_media, one [images, videos,
\* has_product_feed] for each asset group with an enabled asset row: an asset
\* group with a product feed is skipped and counted compliant; another one
\* is an issue when it is short of images or of videos.
count_media_issues(asset_group_media) ==
    LET short(media) == media.images < PMAX_MIN_IMAGES \/ media.videos < PMAX_MIN_VIDEOS
        issues == {i \in 1..Len(asset_group_media) :
                      /\ ~asset_group_media[i].has_product_feed
                      /\ short(asset_group_media[i])}
        skipped_product_feed ==
            {i \in 1..Len(asset_group_media) : asset_group_media[i].has_product_feed}
    IN  [rows |-> [total |-> Len(asset_group_media), bad |-> Cardinality(issues)],
         with_feed |-> Cardinality(skipped_product_feed)]

\* Check 25. rows: the asset groups having asset rows, rows.bad of them without
\* a product feed and short of images or videos; with_feed: those with a feed.
check_images_videos(rows, with_feed) ==
    IF rows.total = 0
    THEN Return(CheckResult("info", None, "No asset group assets found", 0))
    ELSE LET total == rows.total
             non_compliant_count == rows.bad
             compliant == total - non_compliant_count
             skipped_product_feed == with_feed
             score == Pct(non_compliant_count, total)
         IN  Return(CheckResult(Band(score, 10), score,
                 ToString(compliant) \o "/" \o ToString(total)
                     \o " asset groups meet media requirements"
                     \o (IF skipped_product_feed > 0
                         THEN " (" \o ToString(skipped_product_feed)
                              \o " with product feed skipped)"
                         ELSE ""),
                 non_compliant_count))

PMAX_SPEND_SPLIT ==
    [channel \in {"SHOPPING", "VIDEO", "OTHER"} |->
        IF channel = "SHOPPING" THEN Rat(80, 100) ELSE Rat(10, 100)]
PMAX_SPEND_TOLERANCE == Rat(10, 100)

\* Check 26, which no runner calls. rows.total rows of campaign cost, `cost`
\* their sum: the loop adds every row's cost to the channel OTHER.
check_pmax_spend_split(rows, cost) ==
    IF rows.total = 0
    THEN Return(CheckResult("info", None, "No PMax spend data found", 0))
    ELSE LET spend_by_type == [channel \in {"SHOPPING", "VIDEO", "OTHER"} |->
                                  IF channel = "OTHER" THEN cost ELSE 0]
             total_spend == cost
         IN  IF total_spend = 0
             THEN Return(CheckResult("info", None, "No spend data to analyze", 0))
             ELSE LET shopping_pct == Rat(spend_by_type["SHOPPING"], total_spend)
                      video_pct == Rat(spend_by_type["VIDEO"], total_spend)
                      other_pct == Rat(spend_by_type["OTHER"], total_spend)
                      shopping_ok == RatLe(RatAbs(RatSub(shopping_pct, PMAX_SPEND_SPLIT["SHOPPING"])),
                                           PMAX_SPEND_TOLERANCE)
                      video_ok == RatLe(RatAbs(RatSub(video_pct, PMAX_SPEND_SPLIT["VIDEO"])),
                                        PMAX_SPEND_TOLERANCE)
                      status == IF shopping_ok /\ video_ok THEN "pass" ELSE "warning"
                      deviation == RatAbs(RatSub(RatMul(shopping_pct, Int2Rat(100)),
                                       RatMul(PMAX_SPEND_SPLIT["SHOPPING"], Int2Rat(100))))
                      score == RatMin(RatMul(deviation, Rat(3, 2)), Int2Rat(100))
                  IN  Return(CheckResult(status, score,
                          "Shopping: " \o Fmt1(RatMul(shopping_pct, Int2Rat(100)))
                              \o "%, Video: " \o Fmt1(RatMul(video_pct, Int2Rat(100)))
                              \o "%, Other: " \o Fmt1(RatMul(other_pct, Int2Rat(100))) \o "%",
                          3))

(***************************************************************************)
(* google/checks/app_checks.py                                             *)
(***************************************************************************)
check_single_in_app_action(rows) ==
    IF rows.total = 0
    THEN Return(CheckResult("info", None, "No active App campaigns found", 0))
    ELSE LET total == rows.total
             non_compliant_count == rows.bad
             compliant == total - non_compliant_count
             score == Pct(non_compliant_count, total)
         IN  Return(CheckResult(Band(score, 50), score,
                 ToString(compliant) \o "/" \o ToString(total)
                     \o " App campaigns optimized on in-app action",
                 non_compliant_count))

check_app_asset_counts(rows) ==
    IF rows.total = 0
    THEN Return(CheckResult("info", None, "No active App campaign ads found", 0))
    ELSE LET total == rows.total
             non_compliant_count == rows.bad
             compliant == total - non_compliant_count
             score == Pct(non_compliant_count, total)
         IN  Return(CheckResult(Band(score, 10), score,
                 ToString(compliant) \o "/" \o ToString(total)
                     \o " App ads meet asset requirements",
                 non_compliant_count))

\* Checks 16, 27, 29 and 30, which list campaigns for verification by hand.
\* campaigns, rows: [total |-> the enabled campaigns of the channel type].
check_auto_asset_optimization(campaigns) ==
    IF campaigns.total = 0
    THEN Return(CheckResult("info", None, "No active Performance Max campaigns found", 0))
    ELSE Return(CheckResult("info", None,
             "Found " \o ToString(campaigns.total)
                 \o " PMax campaigns - Auto-asset settings require manual verification",
             campaigns.total))

check_product_coverage ==
    Return(CheckResult("info", None,
        "Product coverage check requires Merchant Center integration", 1))

check_deferred_deep_linking(rows) ==
    IF rows.total = 0
    THEN Return(CheckResult("info", None, "No active App campaigns found", 0))
    ELSE LET campaigns_list == rows.total
         IN  Return(CheckResult("info", None,
                 "Found " \o ToString(rows.total)
                     \o " App campaigns - DDL check requires manual verification",
                 IF campaigns_list > 0 THEN campaigns_list ELSE 1))

check_custom_store_listing(rows) ==
    IF rows.total = 0
    THEN Return(CheckResult("info", None, "No active App campaigns found", 0))
    ELSE LET campaigns_list == rows.total
         IN  Return(CheckResult("info", None,
                 "Found " \o ToString(rows.total)
                     \o " App campaigns - Custom Store Listing requires manual verification",
                 IF campaigns_list > 0 THEN campaigns_list ELSE 1))

\* utils.data_processing.calculate_overall_health_score. results: the values
\* of the results dict, in its order.
calculate_overall_health_score(results) ==
    LET weights == [pass |-> Int2Rat(1), warning |-> Rat(7, 10), fail |-> Int2Rat(0),
                    info |-> None, error |-> Int2Rat(0)]
        counted(result) ==
            IF result.score # None THEN <<result.score>>
            ELSE IF result.status \in DOMAIN weights /\ weights[result.status] # None
                 THEN <<RatMul(weights[result.status], Int2Rat(100))>>
                 ELSE <<>>
        scores_[i \in 0..Len(results)] ==
            IF i = 0 THEN <<>> ELSE scores_[i - 1] \o counted(results[i])
        all == scores_[Len(results)]
    IN  IF all # <<>> THEN RatDiv(SumRat(all), Int2Rat(Len(all))) ELSE Int2Rat(0)

(***************************************************************************)
(* The state.                                                              *)
(***************************************************************************)
VARIABLES
    platform,         \* st.session_state.selected_platform: "google" or "meta"
    account,          \* the advertising account the queries are answered from
    ads_df,           \* the flattened ads table handed to the Meta runners
    adsets_df,        \* the flattened ad sets table handed to the Meta runners
    pc,               \* the position of the analysis run
    idx,              \* the runner's position in its list of checks (1-based)
    results,          \* the collection the running runner has built so far
    session_results,  \* st.session_state.results: category -> the runner's dict
    meta_results,     \* st.session_state.meta_results
    returned,         \* category -> the list a Meta runner returned to its caller
    runner_exc,       \* category -> the exception that left the category's runner
    summary,          \* category -> what render_summary_stats displayed
    shown_errors,     \* the messages passed to st.error, in order
    faults,           \* the API calls that failed so far in this run
    call,             \* a check function called on its own: its name and its arguments
    table,            \* the argument object of that call, as it is now
    outputs           \* what the successive calls of `call` returned, in order

vars == <<platform, account, ads_df, adsets_df, pc, idx, results, session_results,
          meta_results, returned, runner_exc, summary, shown_errors, faults,
          call, table, outputs>>

googleVars == <<account, session_results, summary, faults>>
metaVars == <<ads_df, adsets_df, meta_results, returned>>
unitVars == <<call, table, outputs>>

(***************************************************************************)
(* The account.  Every universe collection of the account has n entities,  *)
(* `bad` of which fail the test of whichever check looks at them; every    *)
(* keyword row costs `cost` units.                                         *)
(***************************************************************************)
Accounts ==
    {a \in [n : 0..MaxEntities, bad : 0..MaxEntities, cost : 0..MaxCost] :
        /\ a.bad <= a.n
        /\ (a.n = 0 => a.cost = 0)}

\* what check_func(client, customer_id) does for check `id` when its queries
\* have the API outcome `api`
Invoke(id, api, acct) ==
    IF api \in OtherErrors THEN Raise(api)
    ELSE
    LET u == execute_query(api, [total |-> acct.n, bad |-> acct.bad])
        good == u.total - u.bad
    IN  CASE id = 3  -> check_limited_by_budget(u)
          [] id = 12 -> check_conversion_goal(u)
          [] id = 13 -> check_location_targeting(u)
          [] id = 1  -> check_spend_split(u,
                            [EXACT |-> good * acct.cost, PHRASE |-> 0,
                             BROAD |-> u.bad * acct.cost])
          [] id = 2  -> check_audience_observation(u)
          [] id = 4  -> check_rsa_count([i \in 1..u.total |->
                            IF i <= u.bad THEN MIN_RSAS_PER_AD_GROUP - 1
                            ELSE MIN_RSAS_PER_AD_GROUP])
          [] id = 5  -> check_unique_rsas_ratio(IF u.total = 0 THEN 0 ELSE good + 1, u.total)
          [] id = 6  -> check_cross_keyword_negation(u.total * (u.total - 1),
                                                     good * (u.total - 1))
          [] id = 7  -> check_ad_copy_quality(u,
                            (IF good > 0 THEN 1 ELSE 0) + (IF u.bad > 0 THEN 1 ELSE 0),
                            u.bad)
          [] id = 8  -> check_sitelinks(u)
          [] id = 9  -> check_display_path(u)
          [] id = 10 -> check_weighted_quality_score(
                            [keywords |-> good, weight |-> 10 * good, impressions |-> good],
                            [keywords |-> u.bad, weight |-> 5 * u.bad, impressions |-> u.bad],
                            NoData)
          [] id = 11 -> check_keywords_without_impressions(u)
          [] id = 14 -> check_age_exclusions(u)
          [] id = 15 -> check_brand_exclusions(u)
          [] id = 17 -> check_search_themes(u)
          [] id = 18 -> check_search_term_negation(u)
          [] id = 19 -> check_asset_counts(u)
          [] id = 20 -> check_cta_not_automated(u)
          [] id = 21 -> check_pmax_sitelinks(u)
          [] id = 22 -> check_pmax_display_path(u)
          [] id = 23 -> check_callouts(u)
          [] id = 24 -> check_structured_snippets(u)
          [] id = 25 -> check_images_videos(u, 0)
          [] id = 28 -> check_single_in_app_action(u)
          [] id = 31 -> check_app_asset_counts(u)

(***************************************************************************)
(* The category runners.  RunnerChecks(cat) is the list of checks the      *)
(* runner of the category calls, in the order of its code.                 *)
(***************************************************************************)
Categories == <<"Universal", "Search", "PMax", "App">>

RunnerChecks(cat) ==
    CASE cat = "Universal" -> <<3, 12, 13>>
      [] cat = "Search"    -> <<1, 2, 4, 5, 6, 7, 8, 9, 10, 11>>
      [] cat = "PMax"      -> <<14, 15, 17, 18, 19, 20, 21, 22, 23, 24, 25>>
      [] cat = "App"       -> <<28, 31>>

\* a variant that stamps every result with the name of check 1
StampFirstName(result, check_num) == [name |-> CHECK_DESCRIPTIONS[1]] @@ result

\* results[check_num]["name"] = CHECK_DESCRIPTIONS[check_num]
StampName(result, check_num) == [name |-> CHECK_DESCRIPTIONS[check_num]] @@ result

\* a variant of the except branch whose message is str(e) alone
ErrorResultBare(check_num, e) ==
    [status |-> "error", score |-> None, message |-> e,
     name |-> CHECK_DESCRIPTIONS[check_num], details |-> 0]

\* the except branch of run_all_search_checks, run_all_pmax_checks, run_all_app_checks
ErrorResult(check_num, e) ==
    [status |-> "error", score |-> None, message |-> "Error: " \o e,
     name |-> CHECK_DESCRIPTIONS[check_num], details |-> 0]

\* one pass of the runner's  try: ... except Exception as e: ...
TryCheck(res, check_num, outcome) ==
    IF outcome.raised
    THEN DictSet(res, check_num, ErrorResult(check_num, outcome.exc))
    ELSE DictSet(res, check_num, StampName(outcome.result, check_num))

(***************************************************************************)
(* google/components/ui_components.py                                      *)
(***************************************************************************)
CountStatus(values, status) == Cardinality({i \in 1..Len(values) : values[i].status = status})

\* a variant of the list below that keeps a missing score as 0
scores_with_none(values) ==
    [i \in 1..Len(values) |-> IF values[i].score = None THEN Int2Rat(0) ELSE values[i].score]

\* [r.get("score", 0) for r in results.values() if r.get("score") is not None]
scores(values) ==
    SelectSeq([i \in 1..Len(values) |-> values[i].score], LAMBDA x : x # None)

\* a variant of the mean below that is 100 for an empty list
avg_affected_full(s) ==
    IF s # <<>> THEN RatDiv(SumRat(s), Int2Rat(Len(s))) ELSE Int2Rat(100)

\* sum(scores) / len(scores) if scores else 0
avg_affected(s) ==
    IF s # <<>> THEN RatDiv(SumRat(s), Int2Rat(Len(s))) ELSE Int2Rat(0)

render_summary_stats(res) ==
    LET values == DictValues(res)
        total == Len(res)
        passed == CountStatus(values, "pass")
        failed == CountStatus(values, "fail")
        warnings == CountStatus(values, "warning")
        info == total - passed - failed - warnings
        overall_positive_score ==
            RatMax(Int2Rat(0), RatSub(Int2Rat(100), avg_affected(scores(values))))
    IN  [overall |-> overall_positive_score,
         shown |-> Fmt0(overall_positive_score) \o "%",
         passed |-> passed, failed |-> failed, warnings |-> warnings, info |-> info]

(***************************************************************************)
(* google/app.py: the analysis run of main().                              *)
(***************************************************************************)
NextCategory(cat) ==
    CASE cat = "Universal" -> "Search"
      [] cat = "Search"    -> "PMax"
      [] cat = "PMax"      -> "App"
      [] cat = "App"       -> "done"

\* a variant in which the run ends at the first category that raised
AfterErrorStop(cat) == "done"

\* where main() goes on after the except branch of a category: the handler
\* reports the error and falls through to the next tab
AfterError(cat) == NextCategory(cat)

\* the API outcome of one check; at most MaxFaults calls of a run fail
ApiCall(api) ==
    /\ api \in ApiOutcomes
    /\ IF api = "ok" THEN faults' = faults
       ELSE faults < MaxFaults /\ faults' = faults + 1

\* the button "Run Health Check Analysis"
ClickRunAnalysis ==
    /\ platform = "google"
    /\ pc = "idle"
    /\ session_results' = EmptyDict
    /\ pc' = "Universal"
    /\ idx' = 1
    /\ results' = EmptyDict
    /\ UNCHANGED <<platform, account, summary, shown_errors, faults, runner_exc>>
    /\ UNCHANGED metaVars
    /\ UNCHANGED unitVars

\* one check of run_all_universal_checks, which has no handler: an exception
\* leaves the runner and is caught by main(), which reports it and goes on
\* to the next tab
UniversalCheck ==
    /\ pc = "Universal"
    /\ idx <= Len(RunnerChecks("Universal"))
    /\ \E api \in ApiOutcomes :
        /\ ApiCall(api)
        /\ LET check_num == RunnerChecks("Universal")[idx]
               outcome == Invoke(check_num, api, account)
           IN  IF outcome.raised
               THEN /\ runner_exc' = DictSet(runner_exc, "Universal", outcome.exc)
                    /\ shown_errors' = Append(shown_errors,
                            "Error running universal checks: " \o outcome.exc)
                    /\ pc' = AfterError("Universal")
                    /\ idx' = 1
                    /\ results' = EmptyDict
               ELSE /\ results' = DictSet(results, check_num,
                                          StampName(outcome.result, check_num))
                    /\ idx' = idx + 1
                    /\ UNCHANGED <<pc, shown_errors, runner_exc>>
    /\ UNCHANGED <<platform, account, session_results, summary>>
    /\ UNCHANGED metaVars
    /\ UNCHANGED unitVars

\* one check of run_all_search_checks, run_all_pmax_checks or run_all_app_checks
RunnerCheck(cat) ==
    /\ pc = cat
    /\ idx <= Len(RunnerChecks(cat))
    /\ \E api \in ApiOutcomes :
        /\ ApiCall(api)
        /\ LET check_num == RunnerChecks(cat)[idx]
           IN  results' = TryCheck(results, check_num, Invoke(check_num, api, account))
    /\ idx' = idx + 1
    /\ UNCHANGED <<platform, account, pc, session_results, summary, shown_errors,
                   runner_exc>>
    /\ UNCHANGED metaVars
    /\ UNCHANGED unitVars

\* the runner returns its dict; main() stores it and renders the summary
CategoryDone(cat) ==
    /\ pc = cat
    /\ idx = Len(RunnerChecks(cat)) + 1
    /\ session_results' = DictSet(session_results, cat, results)
    /\ summary' = DictSet(summary, cat, render_summary_stats(results))
    /\ pc' = NextCategory(cat)
    /\ idx' = 1
    /\ results' = EmptyDict
    /\ UNCHANGED <<platform, account, shown_errors, faults, runner_exc>>
    /\ UNCHANGED metaVars
    /\ UNCHANGED unitVars

(***************************************************************************)
(* The Meta side.  A table (pandas DataFrame) is a record: n rows, `bad`   *)
(* of which are bare (every audited field is 'NA'), the others fully       *)
(* configured, and the set of its columns.  A fully configured ad is a     *)
(* standard web ad (no application, no product set, no child attachments)  *)
(* with URL tags, a pixel, 3 titles, 3 bodies, 2 descriptions, a call to   *)
(* action, a video and a creative_asset_groups_spec.  A fully configured   *)
(* ad set runs on facebook and instagram, has a lookalike custom audience, *)
(* a flexible_spec, advantage_audience '1' and optimises for               *)
(* OFFSITE_CONVERSIONS; a bare one runs on audience_network only and       *)
(* optimises for LINK_CLICKS.  The name and id columns are in every table. *)
(***************************************************************************)
AdColumns ==
    {"url_tags", "application", "fb_pixel", "asset_feed_titles", "asset_feed_bodies",
     "asset_feed_call_to_action_types", "story_link_call_to_action",
     "story_video_call_to_action", "asset_feed_video_ids", "story_video_id",
     "creative_asset_groups_spec"}

AdsetColumns ==
    {"publisher_platforms", "custom_audiences", "flexible_spec", "optimization_goal",
     "advantage_audience"}

\* pd.DataFrame()
EmptyFrame == [n |-> 0, bad |-> 0, columns |-> {}]

\* ads_df.empty
Empty(df) == df.n = 0 \/ df.columns = {}

\* str(KeyError(col)), what df[col] raises when the table has no such column
KeyError(col) == "'" \o col \o "'"

\* the first of the columns `cols`, read in this order, that the table lacks
FirstMissing(df, cols) ==
    LET miss == {i \in 1..Len(cols) : cols[i] \notin df.columns}
    IN  IF miss = {} THEN ""
        ELSE cols[CHOOSE i \in miss : \A j \in miss : i <= j]

MetaResult(check_name, status, count, total) ==
    [check_name |-> check_name, status |-> status, count |-> count, total |-> total]

\* the band with its upper bound included
MetaBandInclusive(count, total, f) ==
    IF count = 0 THEN "PASS"
    ELSE IF count * f[2] <= total * f[1] THEN "WARNING"
    ELSE "FAIL"

\* a Meta band written with the status strings of the Google checks
MetaBandLower(count, total, f) ==
    IF count = 0 THEN "pass"
    ELSE IF count * f[2] < total * f[1] THEN "warning"
    ELSE "fail"

\* 'PASS' if count == 0 else 'WARNING' if count < total * f else 'FAIL'
\* (f is the fraction num/den; for the totals considered the float product
\* total * f compares with an integer as the exact product does)
MetaBand(count, total, f) ==
    IF count = 0 THEN "PASS"
    ELSE IF count * f[2] < total * f[1] THEN "WARNING"
    ELSE "FAIL"

\* a check that reads `cols`, counts `count` of `total` rows and grades them
MetaCheck(df, check_name, cols, status, count, total) ==
    IF Empty(df) THEN Return(MetaResult(check_name, "INFO", 0, 0))
    ELSE IF FirstMissing(df, cols) # "" THEN Raise(KeyError(FirstMissing(df, cols)))
    ELSE Return(MetaResult(check_name, status, count, total))

check_url_tags_presence(ads) ==
    MetaCheck(ads, "URL Tags Presence", <<"url_tags">>,
              MetaBand(ads.bad, ads.n, <<2, 10>>), ads.bad, ads.n)

check_pixel_tracking(ads) ==
    MetaCheck(ads, "Facebook Pixel Tracking", <<"application", "fb_pixel">>,
              MetaBand(ads.bad, ads.n, <<3, 10>>), ads.bad, ads.n)

check_tracking_coverage(ads) ==
    MetaCheck(ads, "Overall Tracking Coverage", <<"url_tags", "fb_pixel">>,
              MetaBand(ads.bad, ads.n, <<1, 10>>), ads.bad, ads.n)

THRESHOLDS == [min_headline_count |-> 3, min_primary_text_count |-> 3,
               min_description_count |-> 2, min_optimization_goals |-> 2]

\* the copy counts of a fully configured ad and of a bare one
GoodAd == [headlines |-> 3, primary_texts |-> 3, descriptions |-> 2]
BareAd == [headlines |-> 0, primary_texts |-> 0, descriptions |-> 0]

\* len(standard_ads[standard_ads[field] < minimum])
Insufficient(ads, field, minimum) ==
    (IF GoodAd[field] < minimum THEN ads.n - ads.bad ELSE 0)
    + (IF BareAd[field] < minimum THEN ads.bad ELSE 0)

check_headline_count(ads) ==
    LET count == Insufficient(ads, "headlines", THRESHOLDS.min_headline_count)
    IN  MetaCheck(ads, "Headline Variations", <<>>,
                  MetaBand(count, ads.n, <<3, 10>>), count, ads.n)

check_primary_text_count(ads) ==
    LET count == Insufficient(ads, "primary_texts", THRESHOLDS.min_primary_text_count)
    IN  MetaCheck(ads, "Primary Text Variations", <<>>,
                  MetaBand(count, ads.n, <<3, 10>>), count, ads.n)

check_description_count(ads) ==
    LET count == Insufficient(ads, "descriptions", THRESHOLDS.min_description_count)
    IN  MetaCheck(ads, "Description Variations", <<>>,
                  MetaBand(count, ads.n, <<4, 10>>), count, ads.n)

check_missing_copy_elements(ads) ==
    MetaCheck(ads, "Missing Copy Elements", <<"asset_feed_titles", "asset_feed_bodies">>,
              IF ads.bad = 0 THEN "PASS" ELSE "FAIL", ads.bad, ads.n)

check_cta_presence(ads) ==
    MetaCheck(ads, "Call-to-Action Presence",
              <<"asset_feed_call_to_action_types", "story_link_call_to_action",
                "story_video_call_to_action">>,
              MetaBand(ads.bad, ads.n, <<2, 10>>), ads.bad, ads.n)

\* the classification done in place by filtering: the table keeps only the
\* rows it could classify
with_ad_type_filtered(ads) ==
    IF ads.n = 0 THEN ads
    ELSE [n |-> ads.n - ads.bad, bad |-> 0, columns |-> ads.columns \cup {"ad_type"}]

\* ads_df['ad_type'] = ads_df.apply(determine_ad_type, axis=1): the check
\* adds a column to the table it was given
with_ad_type(ads) == IF Empty(ads) THEN ads ELSE [ads EXCEPT !.columns = @ \cup {"ad_type"}]

\* a fully configured ad is of type 'DCO', a bare one of type 'UNKNOWN'
check_ad_format_distribution(ads) ==
    LET unique_formats == (IF ads.n - ads.bad > 0 THEN 1 ELSE 0)
                          + (IF ads.bad > 0 THEN 1 ELSE 0)
    IN  IF Empty(ads)
        THEN Return([check_name |-> "Ad Format Distribution", status |-> "INFO",
                     total |-> 0])
        ELSE Return([check_name |-> "Ad Format Distribution",
                     status |-> IF unique_formats >= 2 THEN "PASS" ELSE "WARNING",
                     unique_formats |-> unique_formats, total |-> ads.n])

check_video_ad_presence(ads) ==
    LET count == ads.n - ads.bad
    IN  MetaCheck(ads, "Video Ad Usage", <<"asset_feed_video_ids", "story_video_id">>,
                  IF count > 0 THEN "PASS" ELSE "WARNING", count, ads.n)

\* no ad of the tables considered has child attachments
check_carousel_usage(ads) ==
    LET count == 0
    IN  MetaCheck(ads, "Carousel Ad Usage", <<>>,
                  IF count > 0 THEN "PASS" ELSE "INFO", count, ads.n)

check_dco_usage(ads) ==
    LET count == ads.n - ads.bad
    IN  MetaCheck(ads, "DCO (Dynamic Creative) Usage", <<"creative_asset_groups_spec">>,
                  IF count > 0 THEN "PASS" ELSE "WARNING", count, ads.n)

check_audience_network_usage(adsets) ==
    MetaCheck(adsets, "Audience Network Usage", <<"publisher_platforms">>,
              IF adsets.bad * 10 < adsets.n * 5 THEN "PASS" ELSE "WARNING",
              adsets.bad, adsets.n)

check_lookalike_utilization(adsets) ==
    LET count == adsets.n - adsets.bad
    IN  MetaCheck(adsets, "Lookalike Audience Usage", <<"custom_audiences">>,
                  IF count > 0 THEN "PASS" ELSE "WARNING", count, adsets.n)

check_interest_targeting(adsets) ==
    LET count == adsets.n - adsets.bad
    IN  MetaCheck(adsets, "Interest Targeting Usage", <<"flexible_spec">>,
                  IF count > 0 THEN "PASS" ELSE "INFO", count, adsets.n)

check_optimization_goal_diversity(adsets) ==
    LET unique_goals == (IF adsets.n - adsets.bad > 0 THEN {"OFFSITE_CONVERSIONS"} ELSE {})
                        \cup (IF adsets.bad > 0 THEN {"LINK_CLICKS"} ELSE {})
        other_goals == unique_goals \ {"OFFSITE_CONVERSIONS"}
        status == IF "OFFSITE_CONVERSIONS" \in unique_goals /\ Cardinality(other_goals) >= 1
                  THEN "PASS"
                  ELSE IF Cardinality(unique_goals) >= THRESHOLDS.min_optimization_goals
                  THEN "PASS"
                  ELSE "WARNING"
    IN  IF Empty(adsets)
        THEN Return([check_name |-> "Optimization Goal Diversity", status |-> "INFO"])
        ELSE IF "optimization_goal" \notin adsets.columns
        THEN Raise(KeyError("optimization_goal"))
        ELSE Return([check_name |-> "Optimization Goal Diversity", status |-> status,
                     unique_goals |-> Cardinality(unique_goals)])

check_advantage_audience_usage(adsets) ==
    LET count == adsets.n - adsets.bad
    IN  MetaCheck(adsets, "Advantage+ Audience Usage", <<"advantage_audience">>,
                  IF count > 0 THEN "PASS" ELSE "INFO", count, adsets.n)

check_custom_audience_usage(adsets) ==
    LET count == adsets.n - adsets.bad
    IN  MetaCheck(adsets, "Custom Audience Usage", <<"custom_audiences">>,
                  IF count > 0 THEN "PASS" ELSE "WARNING", count, adsets.n)

(***************************************************************************)
(* The Meta category runners: each returns the list of its checks' results,*)
(* built by evaluating the calls in order.                                 *)
(***************************************************************************)
MetaCategories == <<"tracking", "creative", "format", "audience">>

MetaRunnerLen(cat) ==
    CASE cat = "tracking" -> 3
      [] cat = "creative" -> 5
      [] cat = "format"   -> 4
      [] cat = "audience" -> 6

\* the i-th call of the list the runner of `cat` returns
MetaInvoke(cat, i, ads, adsets) ==
    CASE cat = "tracking" ->
            (CASE i = 1 -> check_url_tags_presence(ads)
              [] i = 2 -> check_pixel_tracking(ads)
              [] i = 3 -> check_tracking_coverage(ads))
      [] cat = "creative" ->
            (CASE i = 1 -> check_headline_count(ads)
              [] i = 2 -> check_primary_text_count(ads)
              [] i = 3 -> check_description_count(ads)
              [] i = 4 -> check_missing_copy_elements(ads)
              [] i = 5 -> check_cta_presence(ads))
      [] cat = "format" ->
            (CASE i = 1 -> check_ad_format_distribution(ads)
              [] i = 2 -> check_video_ad_presence(ads)
              [] i = 3 -> check_carousel_usage(ads)
              [] i = 4 -> check_dco_usage(ads))
      [] cat = "audience" ->
            (CASE i = 1 -> check_audience_network_usage(adsets)
              [] i = 2 -> check_lookalike_utilization(adsets)
              [] i = 3 -> check_interest_targeting(adsets)
              [] i = 4 -> check_optimization_goal_diversity(adsets)
              [] i = 5 -> check_advantage_audience_usage(adsets)
              [] i = 6 -> check_custom_audience_usage(adsets))

NextMetaCategory(cat) ==
    CASE cat = "tracking" -> "creative"
      [] cat = "creative" -> "format"
      [] cat = "format"   -> "audience"
      [] cat = "audience" -> "done"

\* the tables the runners are called with: one column at most is absent
AbsentAdColumns == {"", "fb_pixel", "asset_feed_call_to_action_types", "story_video_id"}
AbsentAdsetColumns == {"", "custom_audiences"}

Frames(columns, absent) ==
    {[n |-> n, bad |-> b, columns |-> columns \ {c}] :
        n \in 0..MaxEntities, b \in 0..MaxEntities, c \in absent}

AdsFrames == {f \in Frames(AdColumns, AbsentAdColumns) : f.bad <= f.n} \cup {EmptyFrame}
AdsetFrames == {f \in Frames(AdsetColumns, AbsentAdsetColumns) : f.bad <= f.n}
               \cup {EmptyFrame}

\* str(e) of the TypeError raised by
\* get_ads_for_account(selected_account_id, access_token, active_only=True):
\* the function has no parameter active_only
FetchTypeError == "get_ads_for_account() got an unexpected keyword argument 'active_only'"

\* no check function is called on its own while the application runs
NoCall == [fn |-> "", args |-> None]

Init ==
    /\ platform \in {"google", "meta"}
    /\ IF platform = "google"
       THEN /\ account \in Accounts
            /\ ads_df = EmptyFrame
            /\ adsets_df = EmptyFrame
       ELSE /\ account = [n |-> 0, bad |-> 0, cost |-> 0]
            /\ ads_df \in AdsFrames
            /\ adsets_df \in AdsetFrames
    /\ pc = "idle"
    /\ idx = 1
    /\ results = <<>>
    /\ session_results = EmptyDict
    /\ meta_results = EmptyDict
    /\ returned = EmptyDict
    /\ runner_exc = EmptyDict
    /\ summary = EmptyDict
    /\ shown_errors = <<>>
    /\ faults = 0
    /\ call = NoCall
    /\ table = None
    /\ outputs = <<>>

\* the button "Run Health Check Analysis" of run_meta_healthcard: the fetch
\* raises, the handler reports it (after a cross mark) and returns
MetaClickRunAnalysis ==
    /\ platform = "meta"
    /\ pc = "idle"
    /\ meta_results' = EmptyDict
    /\ shown_errors' = Append(shown_errors, "Error fetching data: " \o FetchTypeError)
    /\ pc' = "done"
    /\ UNCHANGED <<platform, ads_df, adsets_df, idx, results, returned, runner_exc>>
    /\ UNCHANGED googleVars
    /\ UNCHANGED unitVars

\* a caller holding the two tables calls the four runners in turn
CallMetaRunners ==
    /\ platform = "meta"
    /\ pc = "idle"
    /\ pc' = "tracking"
    /\ idx' = 1
    /\ results' = <<>>
    /\ UNCHANGED <<platform, runner_exc, shown_errors>>
    /\ UNCHANGED metaVars
    /\ UNCHANGED googleVars
    /\ UNCHANGED unitVars

\* the next element of the runner's list: there is no handler, an exception
\* of the check leaves the runner and the results built so far are lost
MetaRunnerCheck(cat) ==
    /\ pc = cat
    /\ idx <= MetaRunnerLen(cat)
    /\ LET outcome == MetaInvoke(cat, idx, ads_df, adsets_df)
       IN  IF outcome.raised
           THEN /\ runner_exc' = DictSet(runner_exc, cat, outcome.exc)
                /\ results' = <<>>
                /\ idx' = 1
                /\ pc' = NextMetaCategory(cat)
           ELSE /\ results' = Append(results, outcome.result)
                /\ idx' = idx + 1
                /\ UNCHANGED <<pc, runner_exc>>
    /\ ads_df' = IF cat = "format" /\ idx = 1 THEN with_ad_type(ads_df) ELSE ads_df
    /\ UNCHANGED <<platform, adsets_df, meta_results, returned, shown_errors>>
    /\ UNCHANGED googleVars
    /\ UNCHANGED unitVars

\* the runner returns its list
MetaRunnerReturn(cat) ==
    /\ pc = cat
    /\ idx = MetaRunnerLen(cat) + 1
    /\ returned' = DictSet(returned, cat, results)
    /\ pc' = NextMetaCategory(cat)
    /\ idx' = 1
    /\ results' = <<>>
    /\ UNCHANGED <<platform, ads_df, adsets_df, meta_results, runner_exc, shown_errors>>
    /\ UNCHANGED googleVars
    /\ UNCHANGED unitVars

Next ==
    \/ ClickRunAnalysis
    \/ UniversalCheck
    \/ \E cat \in {"Search", "PMax", "App"} : RunnerCheck(cat)
    \/ \E cat \in {"Universal", "Search", "PMax", "App"} : CategoryDone(cat)
    \/ MetaClickRunAnalysis
    \/ CallMetaRunners
    \/ \E cat \in {"tracking", "creative", "format", "audience"} : MetaRunnerCheck(cat)
    \/ \E cat \in {"tracking", "creative", "format", "audience"} : MetaRunnerReturn(cat)

Spec == Init /\ [][Next]_vars

(***************************************************************************)
(* The check functions called on their own.  A call names the function and *)
(* gives what its queries return (Google) or the table it is handed        *)
(* (Meta); the same call is then made again on the same argument object.   *)
(***************************************************************************)
MaxRows == 12
MaxCount == 3
MaxAdGroups == 5
MaxCalls == 2

\* what a query returns to a check that counts the offending rows
Rows == {r \in [total : 0..MaxRows, bad : 0..MaxRows] : r.bad <= r.total}

\* the Google check functions whose only input is such a collection
RowChecks ==
    {"check_limited_by_budget", "check_conversion_goal", "check_location_targeting",
     "check_audience_observation", "check_sitelinks", "check_display_path",
     "check_keywords_without_impressions", "check_age_exclusions",
     "check_brand_exclusions", "check_search_themes", "check_search_term_negation",
     "check_asset_counts", "check_cta_not_automated", "check_pmax_sitelinks",
     "check_pmax_display_path", "check_callouts", "check_structured_snippets",
     "check_single_in_app_action", "check_app_asset_counts"}

\* ad_group_ad.ad_strength of the enabled RSAs
AdStrengths == {"EXCELLENT", "GOOD", "AVERAGE", "POOR"}

\* the quality score Google reports for a keyword
QualityScores == 1..10

\* the rows of check 10: one keyword of any ad group name, quality score
\* and impressions; two keywords of one ad group; and three keywords whose
\* ad groups are of two or three types
QualityRows ==
    LET Words == {"brand", "branded shoes", "non-brand", "competitor", "competitive set",
                  "comp", "company brand", "shoes", "generic", ""}
        Names == [word : Words, upper : BOOLEAN]
        name(w) == [word |-> w, upper |-> FALSE]
        Row(n, q, i) == [ad_group_name |-> n, quality_score |-> q, impressions |-> i]
        Scores == {None, Int2Rat(0)} \cup {Int2Rat(q) : q \in QualityScores}
        Some == {None, Int2Rat(0), Int2Rat(4), Int2Rat(5), Int2Rat(7), Int2Rat(9), Int2Rat(10)}
        Triples == {<<"brand", "branded shoes", "shoes">>, <<"non-brand", "comp", "generic">>,
                    <<"shoes", "competitor", "competitive set">>}
    IN  {<<>>}
        \cup {<<Row(n, q, i)>> : n \in Names, q \in Scores, i \in 1..MaxCount}
        \cup {<<Row(name(w), Int2Rat(q1), i), Row(name(w), Int2Rat(q2), 1)>> :
                  w \in {"brand", "comp", "shoes"}, q1, q2 \in QualityScores, i \in 1..MaxCount}
        \cup {<<Row(name(t[1]), q1, 1), Row(name(t[2]), q2, 1), Row(name(t[3]), q3, i)>> :
                  t \in Triples, q1, q2, q3 \in Some, i \in {1, MaxCount}}

RECURSIVE SeqsUpTo(_, _)
SeqsUpTo(S, n) ==
    IF n = 0 THEN {<<>>}
    ELSE LET shorter == SeqsUpTo(S, n - 1)
         IN  shorter \cup {Append(q, x) : q \in shorter, x \in S}

\* up to n ad groups with MIN_RSAS_PER_AD_GROUP RSAs each, but for one at
\* most, which has fewer
OneShort(n) ==
    {[i \in 1..len |-> IF i = j THEN c ELSE MIN_RSAS_PER_AD_GROUP] :
        len \in 1..n, j \in 0..n, c \in 0..(MIN_RSAS_PER_AD_GROUP - 1)}

\* the enabled RSAs of check 5: up to MaxCount RSAs in two ad groups, with
\* two headlines in either order, one or none, and at most one description;
\* and u distinct RSAs over g ad groups, up to MaxRows each
RsaRows ==
    LET Texts == {<<<<1, 2>>, <<1>>>>, <<<<2, 1>>, <<1>>>>, <<<<1>>, <<1>>>>,
                  <<<<1>>, <<>>>>, <<<<>>, <<>>>>}
        Rsas == {[ad_group |-> g, headlines |-> t[1], descriptions |-> t[2]] :
                    g \in 1..2, t \in Texts}
        Min(a, b) == IF a < b THEN a ELSE b
        Spread(u, g) ==
            [i \in 1..(IF u > g THEN u ELSE g) |->
                [ad_group |-> Min(i, g), headlines |-> <<Min(i, u)>>, descriptions |-> <<>>]]
    IN  UNION {[1..n -> Rsas] : n \in 0..MaxCount}
        \cup {Spread(u, g) : u \in 1..MaxRows, g \in 1..MaxRows}

\* the asset groups of check 25: fewer than MaxCount asset groups with
\* images and videos around the minimum, with or without a product feed; and
\* n asset groups of which k have no media and f have a product feed
AssetGroupMedia ==
    LET Media == [images : {0, PMAX_MIN_IMAGES - 1, PMAX_MIN_IMAGES, PMAX_MIN_IMAGES + 1},
                  videos : {0, PMAX_MIN_VIDEOS, PMAX_MIN_VIDEOS + 1},
                  has_product_feed : BOOLEAN]
        Mixed(n, k, f) ==
            [i \in 1..n |->
                IF i <= k THEN [images |-> 0, videos |-> 0, has_product_feed |-> FALSE]
                ELSE IF i <= k + f
                     THEN [images |-> 0, videos |-> 0, has_product_feed |-> TRUE]
                     ELSE [images |-> PMAX_MIN_IMAGES, videos |-> PMAX_MIN_VIDEOS,
                           has_product_feed |-> FALSE]]
    IN  UNION {[1..n -> Media] : n \in 0..(MaxCount - 1)}
        \cup {Mixed(n, k, f) : n \in 1..MaxRows, k \in 0..MaxRows, f \in 0..MaxCount}

\* campaigns for check 6: every campaign of at most two ad groups with at
\* most one negative each (the keyword texts are one word in two cases and a
\* second word), alone or after a campaign of a single ad group; and
\* campaigns of two ad groups with up to MaxRows - 1 keywords
NegationInputs ==
    LET KeywordTexts == {[word |-> 1, upper |-> FALSE], [word |-> 1, upper |-> TRUE],
                         [word |-> 2, upper |-> FALSE]}
        NegativeRows == [text : KeywordTexts, match_type : {"EXACT", "PHRASE", "BROAD"}]
        AdGroups == [keywords : SUBSET KeywordTexts,
                     negatives : {{}} \cup {{r} : r \in NegativeRows}]
        Small == {<<a>> : a \in AdGroups} \cup {<<a, b>> : a, b \in AdGroups}
        single == <<[keywords |-> {[word |-> 1, upper |-> FALSE]}, negatives |-> {}]>>
        word(i) == [word |-> i, upper |-> FALSE]
        Paired(m, p) ==
            << [keywords |-> {word(i) : i \in 1..m},
                negatives |-> {[text |-> word(0), match_type |-> "EXACT"]}],
               [keywords |-> {word(0)},
                negatives |-> {[text |-> word(i), match_type |-> "EXACT"] : i \in 1..p}] >>
    IN  {<<c>> : c \in Small} \cup {<<single, c>> : c \in Small}
        \cup {<<Paired(m, p)>> : m \in 1..(MaxRows - 1), p \in 0..(MaxRows - 1)}

\* the checks that list campaigns for verification by hand
ManualChecks ==
    {"check_auto_asset_optimization", "check_product_coverage",
     "check_deferred_deep_linking", "check_custom_store_listing"}

GoogleInputs(fn) ==
    CASE fn \in RowChecks -> Rows
      [] fn \in ManualChecks -> {[total |-> n, bad |-> 0] : n \in 0..MaxRows}
      [] fn = "check_spend_split" ->
            {[rows |-> [total |-> 0, bad |-> 0], spend |-> [EXACT |-> 0, PHRASE |-> 0, BROAD |-> 0]]}
            \cup {[rows |-> [total |-> 1, bad |-> 0], spend |-> sp] :
                     sp \in [EXACT : 0..MaxCount, PHRASE : 0..MaxCount, BROAD : 0..MaxCount]}
      [] fn = "check_rsa_count" ->
            SeqsUpTo(0..MaxCount, MaxAdGroups) \cup OneShort(MaxRows)
      [] fn = "check_unique_rsas_ratio" -> RsaRows
      [] fn = "check_cross_keyword_negation" -> NegationInputs
      [] fn = "check_ad_copy_quality" -> [AdStrengths -> 0..MaxCount]
      [] fn = "check_weighted_quality_score" ->
            QualityRows
      [] fn = "check_images_videos" ->
            AssetGroupMedia
      [] fn = "check_pmax_spend_split" ->
            {a \in [rows : Rows, cost : 0..MaxCount] :
                /\ a.rows.total <= 1 /\ a.rows.bad = 0
                /\ (a.rows.total = 0 => a.cost = 0)}

GoogleFunctions ==
    RowChecks \cup ManualChecks \cup
    {"check_spend_split", "check_rsa_count", "check_unique_rsas_ratio",
     "check_cross_keyword_negation", "check_ad_copy_quality",
     "check_weighted_quality_score", "check_images_videos", "check_pmax_spend_split"}

AdsFunctions ==
    {"check_url_tags_presence", "check_pixel_tracking", "check_tracking_coverage",
     "check_headline_count", "check_primary_text_count", "check_description_count",
     "check_missing_copy_elements", "check_cta_presence", "check_ad_format_distribution",
     "check_video_ad_presence", "check_carousel_usage", "check_dco_usage"}

AdsetsFunctions ==
    {"check_audience_network_usage", "check_lookalike_utilization",
     "check_interest_targeting", "check_optimization_goal_diversity",
     "check_advantage_audience_usage", "check_custom_audience_usage"}

MetaFunctions == AdsFunctions \cup AdsetsFunctions

\* check_func(client, customer_id), its queries returning args
GoogleApply(fn, args) ==
    CASE fn = "check_limited_by_budget" -> check_limited_by_budget(args)
      [] fn = "check_conversion_goal" -> check_conversion_goal(args)
      [] fn = "check_location_targeting" -> check_location_targeting(args)
      [] fn = "check_spend_split" -> check_spend_split(args.rows, args.spend)
      [] fn = "check_audience_observation" -> check_audience_observation(args)
      [] fn = "check_rsa_count" -> check_rsa_count(args)
      [] fn = "check_unique_rsas_ratio" ->
            LET c == count_unique_rsas(args)
            IN  check_unique_rsas_ratio(c.unique_count, c.ad_group_count)
      [] fn = "check_cross_keyword_negation" ->
            LET c == cross_keyword_checks(args)
            IN  check_cross_keyword_negation(c.total_checks, c.passed_checks)
      [] fn = "check_ad_copy_quality" ->
            LET total_ads == args["EXCELLENT"] + args["GOOD"] + args["AVERAGE"] + args["POOR"]
            IN  check_ad_copy_quality(
                    [total |-> total_ads, bad |-> args["AVERAGE"] + args["POOR"]],
                    Cardinality({st \in AdStrengths : args[st] > 0}),
                    args["POOR"])
      [] fn = "check_sitelinks" -> check_sitelinks(args)
      [] fn = "check_display_path" -> check_display_path(args)
      [] fn = "check_weighted_quality_score" ->
            LET d == categorize_keywords(args)
            IN  check_weighted_quality_score(d.brand_data, d.non_brand_data, d.competitor_data)
      [] fn = "check_keywords_without_impressions" ->
            check_keywords_without_impressions(args)
      [] fn = "check_age_exclusions" -> check_age_exclusions(args)
      [] fn = "check_brand_exclusions" -> check_brand_exclusions(args)
      [] fn = "check_search_themes" -> check_search_themes(args)
      [] fn = "check_search_term_negation" -> check_search_term_negation(args)
      [] fn = "check_asset_counts" -> check_asset_counts(args)
      [] fn = "check_cta_not_automated" -> check_cta_not_automated(args)
      [] fn = "check_pmax_sitelinks" -> check_pmax_sitelinks(args)
      [] fn = "check_pmax_display_path" -> check_pmax_display_path(args)
      [] fn = "check_callouts" -> check_callouts(args)
      [] fn = "check_structured_snippets" -> check_structured_snippets(args)
      [] fn = "check_auto_asset_optimization" -> check_auto_asset_optimization(args)
      [] fn = "check_product_coverage" -> check_product_coverage
      [] fn = "check_deferred_deep_linking" -> check_deferred_deep_linking(args)
      [] fn = "check_custom_store_listing" -> check_custom_store_listing(args)
      [] fn = "check_images_videos" ->
            LET c == count_media_issues(args)
            IN  check_images_videos(c.rows, c.with_feed)
      [] fn = "check_pmax_spend_split" -> check_pmax_spend_split(args.rows, args.cost)
      [] fn = "check_single_in_app_action" -> check_single_in_app_action(args)
      [] fn = "check_app_asset_counts" -> check_app_asset_counts(args)

\* check(ads_df) or check(adsets_df)
MetaApply(fn, df) ==
    CASE fn = "check_url_tags_presence" -> check_url_tags_presence(df)
      [] fn = "check_pixel_tracking" -> check_pixel_tracking(df)
      [] fn = "check_tracking_coverage" -> check_tracking_coverage(df)
      [] fn = "check_headline_count" -> check_headline_count(df)
      [] fn = "check_primary_text_count" -> check_primary_text_count(df)
      [] fn = "check_description_count" -> check_description_count(df)
      [] fn = "check_missing_copy_elements" -> check_missing_copy_elements(df)
      [] fn = "check_cta_presence" -> check_cta_presence(df)
      [] fn = "check_ad_format_distribution" -> check_ad_format_distribution(df)
      [] fn = "check_video_ad_presence" -> check_video_ad_presence(df)
      [] fn = "check_carousel_usage" -> check_carousel_usage(df)
      [] fn = "check_dco_usage" -> check_dco_usage(df)
      [] fn = "check_audience_network_usage" -> check_audience_network_usage(df)
      [] fn = "check_lookalike_utilization" -> check_lookalike_utilization(df)
      [] fn = "check_interest_targeting" -> check_interest_targeting(df)
      [] fn = "check_optimization_goal_diversity" -> check_optimization_goal_diversity(df)
      [] fn = "check_advantage_audience_usage" -> check_advantage_audience_usage(df)
      [] fn = "check_custom_audience_usage" -> check_custom_audience_usage(df)

\* the table a Meta check leaves behind in the object it was given
TableAfter(fn, df) ==
    IF fn = "check_ad_format_distribution" THEN with_ad_type(df) ELSE df

Calls ==
    UNION {{[fn |-> fn, args |-> a] : a \in GoogleInputs(fn)} : fn \in GoogleFunctions}
    \cup {[fn |-> "calculate_overall_health_score", args |-> r] :
             r \in UNION {[1..n -> [status : {"pass", "warning", "fail", "info", "error"},
                                     score : {None, Int2Rat(0), Int2Rat(50), Int2Rat(100)}]] :
                              n \in 0..(MaxCount - 1)}}
    \cup {[fn |-> fn, args |-> df] : fn \in AdsFunctions, df \in AdsFrames}
    \cup {[fn |-> fn, args |-> [n |-> p[1], bad |-> p[2], columns |-> AdColumns]] :
             fn \in AdsFunctions,
             p \in {q \in (1..MaxRows) \X (0..MaxRows) : q[2] <= q[1]}}
    \cup {[fn |-> fn, args |-> df] : fn \in AdsetsFunctions, df \in AdsetFrames}

CheckInit ==
    /\ call \in Calls
    /\ table = call.args
    /\ outputs = <<>>
    /\ platform = IF call.fn \in MetaFunctions THEN "meta" ELSE "google"
    /\ account = [n |-> 0, bad |-> 0, cost |-> 0]
    /\ ads_df = EmptyFrame
    /\ adsets_df = EmptyFrame
    /\ pc = "call"
    /\ idx = 1
    /\ results = <<>>
    /\ session_results = EmptyDict
    /\ meta_results = EmptyDict
    /\ returned = EmptyDict
    /\ runner_exc = EmptyDict
    /\ summary = EmptyDict
    /\ shown_errors = <<>>
    /\ faults = 0

appVars == <<platform, account, ads_df, adsets_df, pc, idx, results, session_results,
             meta_results, returned, runner_exc, summary, shown_errors, faults>>

\* a Google check function is called: its queries return what they returned
\* before
CallGoogleCheck ==
    /\ call.fn \in GoogleFunctions
    /\ Len(outputs) < MaxCalls
    /\ outputs' = Append(outputs, GoogleApply(call.fn, table))
    /\ UNCHANGED <<call, table>>
    /\ UNCHANGED appVars

\* a Meta check function is called with the table object of the call
CallMetaCheck ==
    /\ call.fn \in MetaFunctions
    /\ Len(outputs) < MaxCalls
    /\ outputs' = Append(outputs, MetaApply(call.fn, table))
    /\ table' = TableAfter(call.fn, table)
    /\ UNCHANGED call
    /\ UNCHANGED appVars

\* the results of a run are handed to calculate_overall_health_score
CallHealthScore ==
    /\ call.fn = "calculate_overall_health_score"
    /\ Len(outputs) < MaxCalls
    /\ outputs' = Append(outputs, Return(calculate_overall_health_score(table)))
    /\ UNCHANGED <<call, table>>
    /\ UNCHANGED appVars

CheckNext ==
    \/ CallGoogleCheck
    \/ CallMetaCheck
    \/ CallHealthScore

CheckSpec == CheckInit /\ [][CheckNext]_vars

(***************************************************************************)
(* The Meta API client: one call of make_api_call, step by step.  call     *)
(* holds the arguments, idx the loop variable attempt, results the HTTP    *)
(* requests sent, table the last response, outputs the waits slept, and    *)
(* returned the outcome of the call.                                       *)
(***************************************************************************)

DEFAULT_RETRY_COUNT == 5

BASE_WAIT_TIME == 5

\* a wait that grows by BASE_WAIT_TIME with each attempt
wait_time_linear(attempt) == BASE_WAIT_TIME * (attempt + 1)

\* wait_time = base_wait * (2 ** attempt)
wait_time(attempt) == BASE_WAIT_TIME * (2 ^ attempt)

RetryInit ==
    /\ call \in {[fn |-> "make_api_call",
                  args |-> [method |-> m, max_retries |-> n, token_params |-> t]] :
                    m \in {"GET", "POST"}, n \in 0..DEFAULT_RETRY_COUNT, t \in BOOLEAN}
    /\ pc = "start"
    /\ idx = 0
    /\ results = <<>>
    /\ table = None
    /\ outputs = <<>>
    /\ returned = EmptyDict
    /\ platform = "meta"
    /\ account = [n |-> 0, bad |-> 0, cost |-> 0]
    /\ ads_df = EmptyFrame
    /\ adsets_df = EmptyFrame
    /\ session_results = EmptyDict
    /\ meta_results = EmptyDict
    /\ runner_exc = EmptyDict
    /\ summary = EmptyDict
    /\ shown_errors = <<>>
    /\ faults = 0

\* make_api_call: the token is looked up; each pass of the loop sends one
\* request, which is answered or times out; a rate-limited or temporarily
\* failing request is followed by a sleep.
make_api_call ==
    LET max_retries == call.args.max_retries
        Timeout == [kind |-> "Timeout", status_code |-> 0, error_code |-> None, text |-> ""]
        Responses ==
            {[kind |-> "response", status_code |-> 200, error_code |-> None, text |-> "data"]}
            \cup {[kind |-> "response", status_code |-> s, error_code |-> c,
                   text |-> IF c = None THEN "" ELSE "error"] :
                     s \in {429, 403, 400, 500},
                     c \in {None} \cup {<<code>> : code \in {4, 17, 32, 613, 100, 190}}}
        temporary(response) ==
            response.error_code # None /\ response.error_code[1] \in {4, 17, 32, 613}
        quiet == <<platform, account, ads_df, adsets_df, session_results, meta_results,
                   runner_exc, summary, shown_errors, faults, call>>
    IN  \/ /\ pc = "start"
           /\ IF ~call.args.token_params
              THEN pc' = "done" /\ returned' = Raise("No access token available")
              ELSE IF idx < max_retries
                   THEN pc' = "request" /\ returned' = returned
                   ELSE pc' = "done" /\ returned' = Raise("Max retries reached for API call")
           /\ UNCHANGED <<idx, results, table, outputs>>
           /\ UNCHANGED quiet
        \/ /\ pc = "request"
           /\ \E response \in Responses \cup {Timeout} :
                 /\ results' = Append(results, call.args.method)
                 /\ table' = response
                 /\ IF response.kind = "Timeout" THEN pc' = "sleep" /\ returned' = returned
                    ELSE IF response.status_code = 200
                         THEN pc' = "done" /\ returned' = Return(response.text)
                    ELSE IF response.status_code \in {429, 403}
                         THEN pc' = "sleep" /\ returned' = returned
                    ELSE IF temporary(response)
                         THEN pc' = "sleep" /\ returned' = returned
                    ELSE /\ pc' = "done"
                         /\ returned' = Raise("API error: " \o ToString(response.status_code)
                                                  \o " - " \o response.text)
           /\ UNCHANGED <<idx, outputs>>
           /\ UNCHANGED quiet
        \/ /\ pc = "sleep"
           /\ outputs' = Append(outputs, wait_time(idx))
           /\ idx' = idx + 1
           /\ IF idx + 1 < max_retries
              THEN pc' = "request" /\ returned' = returned
              ELSE pc' = "done" /\ returned' = Raise("Max retries reached for API call")
           /\ UNCHANGED <<results, table>>
           /\ UNCHANGED quiet

\* a request is answered or times out after REQUEST_TIMEOUT, and a sleep
\* ends: the call takes its next step as long as it has one
RetrySpec == RetryInit /\ [][make_api_call]_vars /\ WF_vars(make_api_call)

(***************************************************************************)
(* Properties.                                                             *)
(***************************************************************************)

\* C1: every Google check returns status 'info' with score None, and never
\* 'pass', when its universe query returns no rows.  On an account whose
\* collections are all empty, every result a runner has collected that is
\* not an error entry is therefore 'info' with score None.
C1_EmptyUniverseIsInfo ==
    (platform = "google" /\ account.n = 0) =>
        \A i \in 1..Len(results) :
            results[i].value.status # "error" =>
                /\ results[i].value.status = "info"
                /\ results[i].value.score = None

\* C2: no Google runner propagates an exception: each of the four returns a
\* map, so that a finished run has stored the maps of the four categories.
C2_NoRunnerPropagates ==
    /\ \A cat \in {"Universal", "Search", "PMax", "App"} : ~DictHas(runner_exc, cat)
    /\ (platform = "google" /\ pc = "done") =>
            \A cat \in {"Universal", "Search", "PMax", "App"} :
                DictHas(session_results, cat)

\* C3: in the Search, PMax and App runners a check that raises gets the
\* entry {status 'error', score None, message 'Error: ' + str(e)} and the
\* checks after it still run: the runner's map has an entry for every check
\* up to its position, each entry being what some outcome of the check gives.
C3_RunnerIsolatesFailures ==
    (platform = "google" /\ pc \in {"Search", "PMax", "App"}) =>
        /\ DictKeys(results) = SubSeq(RunnerChecks(pc), 1, idx - 1)
        /\ \A i \in 1..Len(results) :
            \E api \in ApiOutcomes :
                LET o == Invoke(results[i].key, api, account)
                    r == results[i].value
                IN  IF o.raised
                    THEN /\ r.status = "error"
                         /\ r.score = None
                         /\ r.message = "Error: " \o o.exc
                    ELSE /\ r.status = o.result.status
                         /\ r.score = o.result.score

\* C3 happens: a runner holds an error entry followed by the entry of a later
\* check that did run.
C3_Witness ==
    /\ platform = "google"
    /\ pc \in {"Search", "PMax", "App"}
    /\ \E i, j \in 1..Len(results) :
        /\ i < j
        /\ results[i].value.status = "error"
        /\ results[j].value.status # "error"

\* C4: every entry of a runner's map carries the catalog name of its id.
C4_NamesFromCatalog ==
    platform = "google" =>
        /\ \A i \in 1..Len(results) :
            results[i].value.name = CHECK_DESCRIPTIONS[results[i].key]
        /\ \A c \in 1..Len(session_results) :
            \A i \in 1..Len(session_results[c].value) :
                session_results[c].value[i].value.name
                    = CHECK_DESCRIPTIONS[session_results[c].value[i].key]

\* C4 happens: the four runners returned, one of them with an error entry.
C4_Witness ==
    /\ platform = "google"
    /\ pc = "done"
    /\ Len(session_results) = 4
    /\ \E c \in 1..Len(session_results) :
        \E i \in 1..Len(session_results[c].value) :
            session_results[c].value[i].value.status = "error"

\* C5: the ids of the map a runner returns are exactly the declared list of
\* its category (UNIVERSAL_CHECKS, SEARCH_CHECKS, PMAX_CHECKS, APP_CHECKS), in
\* the declared order.
C5_RunnerIdsAreCatalog ==
    platform = "google" =>
        \A c \in 1..Len(session_results) :
            DictKeys(session_results[c].value) =
                CASE session_results[c].key = "Universal" -> UNIVERSAL_CHECKS
                  [] session_results[c].key = "Search"    -> SEARCH_CHECKS
                  [] session_results[c].key = "PMax"      -> PMAX_CHECKS
                  [] session_results[c].key = "App"       -> APP_CHECKS

\* C6: when the Universal runner raises, the Search, PMax and App runners
\* are still invoked and their maps stored in the session results; only the
\* category that failed has no entry.
C6_CategoriesIsolated ==
    (platform = "google" /\ pc = "done") =>
        /\ DictHas(session_results, "Search")
        /\ DictHas(session_results, "PMax")
        /\ DictHas(session_results, "App")
        /\ DictHas(session_results, "Universal") <=> ~DictHas(runner_exc, "Universal")

\* C6 happens: the run ended after the Universal runner raised.
C6_Witness ==
    /\ platform = "google"
    /\ pc = "done"
    /\ DictHas(runner_exc, "Universal")
    /\ DictKeys(session_results) = <<"Search", "PMax", "App">>

\* C7: the Meta runners tolerate the failure of a check: no exception leaves
\* a runner, and the list a runner returns has one result for each of the
\* checks of its category.
C7_MetaRunnersTolerate ==
    /\ \A cat \in {"tracking", "creative", "format", "audience"} :
            ~DictHas(runner_exc, cat)
    /\ \A i \in 1..Len(returned) :
            Len(returned[i].value) = MetaRunnerLen(returned[i].key)

\* C8: the overall score of a Google summary is max(0, 100 - mean of the
\* scores that are not None); a None score counts neither in the sum nor in
\* the denominator, and the result lies within [0, 100].
C8_OverallScore ==
    platform = "google" =>
        \A c \in 1..Len(summary) :
            LET vals == DictValues(DictGet(session_results, summary[c].key))
                k == Cardinality({i \in 1..Len(vals) : vals[i].score # None})
                total == SumRat([i \in 1..Len(vals) |->
                            IF vals[i].score = None THEN Int2Rat(0) ELSE vals[i].score])
                overall == summary[c].value.overall
            IN  /\ RatLe(Int2Rat(0), overall)
                /\ RatLe(overall, Int2Rat(100))
                /\ k > 0 =>
                    overall = RatMax(Int2Rat(0),
                                     RatSub(Int2Rat(100), RatDiv(total, Int2Rat(k))))

\* C8 happens: a summary over results with and without a score, whose overall
\* score is strictly between 0 and 100.
C8_Witness ==
    /\ platform = "google"
    /\ \E c \in 1..Len(summary) :
        LET vals == DictValues(DictGet(session_results, summary[c].key))
        IN  /\ \E i \in 1..Len(vals) : vals[i].score = None
            /\ \E i \in 1..Len(vals) : vals[i].score # None
            /\ RatLt(Int2Rat(0), summary[c].value.overall)
            /\ RatLt(summary[c].value.overall, Int2Rat(100))

\* C9: when no result has a score the overall score is 100 (shown as 100%),
\* and a summary over three info results counts passed = 0, failed = 0,
\* warnings = 0, info = 3.
C9_NoScores ==
    /\ render_summary_stats(EmptyDict).overall = Int2Rat(100)
    /\ platform = "google" =>
        \A c \in 1..Len(summary) :
            LET vals == DictValues(DictGet(session_results, summary[c].key))
                s == summary[c].value
            IN  /\ (\A i \in 1..Len(vals) : vals[i].score = None) =>
                    /\ s.overall = Int2Rat(100)
                    /\ s.shown = "100%"
                /\ (Len(vals) = 3 /\ \A i \in 1..Len(vals) : vals[i].status = "info") =>
                    /\ s.passed = 0
                    /\ s.failed = 0
                    /\ s.warnings = 0
                    /\ s.info = 3

\* C9 happens: a summary was rendered over three info results without score.
C9_Witness ==
    /\ platform = "google"
    /\ \E c \in 1..Len(summary) :
        LET vals == DictValues(DictGet(session_results, summary[c].key))
        IN  /\ Len(vals) = 3
            /\ \A i \in 1..Len(vals) : vals[i].status = "info" /\ vals[i].score = None

\* C10: the counts passed, failed, warnings and info of a summary each equal
\* the number of results with exactly that status; info is the number of
\* 'info' results even when some results are 'error'.
C10_CountsByStatus ==
    platform = "google" =>
        \A c \in 1..Len(summary) :
            LET vals == DictValues(DictGet(session_results, summary[c].key))
                n(status) == Cardinality({i \in 1..Len(vals) : vals[i].status = status})
                s == summary[c].value
            IN  /\ s.passed = n("pass")
                /\ s.failed = n("fail")
                /\ s.warnings = n("warning")
                /\ s.info = n("info")


\* C11: every result a Google check function returns has score None or a
\* number s with 0 <= s <= 100, whatever its queries return.
C11_ScoreInRange ==
    call.fn \in GoogleFunctions =>
        \A i \in 1..Len(outputs) :
            ~outputs[i].raised =>
                LET score == outputs[i].result.score
                IN  \/ score = None
                    \/ RatLe(Int2Rat(0), score) /\ RatLe(score, Int2Rat(100))

\* check_spend_split with no spend on exact match: twice the deviation is
\* 140, the score returned is the cap
C11_Witness ==
    /\ call.fn = "check_spend_split"
    /\ call.args.spend.EXACT = 0
    /\ call.args.spend.BROAD > 0
    /\ Len(outputs) > 0
    /\ outputs[1].result.score = Int2Rat(100)


\* C12: for every count-based Google check with a non-empty universe the
\* score is the affected percentage, 100 * non-compliant / total: 0 when no
\* entity is non-compliant and 100 when every entity is.
C12_ScoreIsAffectedPercentage ==
    (call.fn \in RowChecks /\ call.args.total > 0) =>
        \A i \in 1..Len(outputs) :
            ~outputs[i].raised =>
                outputs[i].result.score = Pct(call.args.bad, call.args.total)


\* the checks whose score is a percentage of offending entities
CountChecks ==
    RowChecks \cup {"check_rsa_count", "check_cross_keyword_negation",
                    "check_ad_copy_quality", "check_images_videos"}

\* the score up to which a check's own status line says "warning" (for
\* check_limited_by_budget, which has no such band, its pass threshold)
WarnCutoff(fn) ==
    CASE fn \in {"check_limited_by_budget", "check_rsa_count", "check_display_path",
                 "check_asset_counts", "check_cta_not_automated",
                 "check_pmax_display_path", "check_images_videos",
                 "check_app_asset_counts"} -> 10
      [] fn \in {"check_conversion_goal", "check_audience_observation", "check_sitelinks",
                 "check_age_exclusions", "check_brand_exclusions", "check_search_themes",
                 "check_search_term_negation", "check_pmax_sitelinks", "check_callouts",
                 "check_structured_snippets"} -> 20
      [] fn = "check_location_targeting" -> 25
      [] fn = "check_cross_keyword_negation" -> 30
      [] fn = "check_keywords_without_impressions" -> 40
      [] fn \in {"check_ad_copy_quality", "check_single_in_app_action"} -> 50

\* C13: for every result of a count-based Google check whose status is pass,
\* warning or fail: score = 0 gives pass, 0 < score <= c gives warning and
\* score > c gives fail, c being the check's own warn cutoff.
C13_ScoreBandsStatus ==
    call.fn \in CountChecks =>
        \A i \in 1..Len(outputs) :
            (~outputs[i].raised
             /\ outputs[i].result.status \in {"pass", "warning", "fail"}) =>
                LET score == outputs[i].result.score
                    status == outputs[i].result.status
                    c == Int2Rat(WarnCutoff(call.fn))
                IN  /\ score = Int2Rat(0) => status = "pass"
                    /\ (RatLt(Int2Rat(0), score) /\ RatLe(score, c)) => status = "warning"
                    /\ RatLt(c, score) => status = "fail"


\* the non-compliant count a count-based check divides by its total
NonCompliant(fn, args) ==
    CASE fn \in RowChecks -> args.bad
      [] fn = "check_rsa_count" ->
            Cardinality({i \in 1..Len(args) : args[i] < MIN_RSAS_PER_AD_GROUP})
      [] fn = "check_cross_keyword_negation" ->
            LET c == cross_keyword_checks(args)
            IN  c.total_checks - c.passed_checks
      [] fn = "check_ad_copy_quality" -> args["AVERAGE"] + args["POOR"]
      [] fn = "check_images_videos" -> count_media_issues(args).rows.bad

\* C14: for every count-based Google check the details table has as many
\* rows as the non-compliant count that is the numerator of the score.
C14_DetailsRowsAreNumerator ==
    call.fn \in CountChecks =>
        \A i \in 1..Len(outputs) :
            (~outputs[i].raised /\ outputs[i].result.score # None) =>
                outputs[i].result.details = NonCompliant(call.fn, call.args)


\* C15: no check function modifies the record collection it is given: after
\* a Meta check has returned, the table it was called with has the rows and
\* the columns it had before the call.
C15_TableNotModified ==
    (call.fn \in MetaFunctions /\ Len(outputs) > 0) =>
        /\ table.n = call.args.n
        /\ table.bad = call.args.bad
        /\ table.columns = call.args.columns


\* the result records the runners hold or have handed over
GoogleProduced ==
    {results[i].value : i \in 1..Len(results)}
    \cup UNION {{session_results[c].value[i].value : i \in 1..Len(session_results[c].value)} :
                   c \in 1..Len(session_results)}

MetaProduced ==
    {results[i] : i \in 1..Len(results)}
    \cup UNION {{returned[c].value[i] : i \in 1..Len(returned[c].value)} :
                   c \in 1..Len(returned)}

C18_DistributionChecksBinary ==
    \A i \in 1..Len(outputs) :
        (~outputs[i].raised /\ outputs[i].result.status # "info") =>
            LET status == outputs[i].result.status
                Within(share, target, tolerance) ==
                    RatLe(RatAbs(RatSub(share, target)), tolerance)
            IN  /\ call.fn = "check_spend_split" =>
                    LET spend == call.args.spend
                        total_spend == spend.EXACT + spend.PHRASE + spend.BROAD
                        exact_ok == RatLe(RatSub(SPEND_SPLIT_THRESHOLDS.EXACT,
                                                 SPEND_SPLIT_TOLERANCE),
                                          Rat(spend.EXACT, total_spend))
                        phrase_ok == Within(Rat(spend.PHRASE, total_spend),
                                            SPEND_SPLIT_THRESHOLDS.PHRASE,
                                            RatMul(SPEND_SPLIT_TOLERANCE, Int2Rat(2)))
                        broad_ok == Within(Rat(spend.BROAD, total_spend),
                                           SPEND_SPLIT_THRESHOLDS.BROAD,
                                           RatMul(SPEND_SPLIT_TOLERANCE, Int2Rat(2)))
                    IN  status = IF exact_ok /\ phrase_ok /\ broad_ok THEN "pass" ELSE "fail"
                /\ call.fn = "check_pmax_spend_split" =>
                    LET shopping_ok == Within(Int2Rat(0), PMAX_SPEND_SPLIT["SHOPPING"],
                                              PMAX_SPEND_TOLERANCE)
                        video_ok == Within(Int2Rat(0), PMAX_SPEND_SPLIT["VIDEO"],
                                           PMAX_SPEND_TOLERANCE)
                    IN  status = IF shopping_ok /\ video_ok THEN "pass" ELSE "fail"


\* C19: check_spend_split on a total spend above 0 returns the score
\* min(2 * |exact share in percent - 70|, 100), whatever the tolerance, and
\* the status fail whenever the exact share is below 65 %; on rows whose
\* total spend is 0 it returns info with score None.
C19_SpendSplitScore ==
    call.fn = "check_spend_split" =>
        \A i \in 1..Len(outputs) :
            LET r == outputs[i].result
                spend == call.args.spend
                total_spend == spend.EXACT + spend.PHRASE + spend.BROAD
            IN  /\ ~outputs[i].raised
                /\ (call.args.rows.total > 0 /\ total_spend = 0) =>
                        (r.status = "info" /\ r.score = None)
                /\ total_spend > 0 =>
                        LET share == Rat(100 * spend.EXACT, total_spend)
                            distance == IF RatLe(Int2Rat(70), share)
                                        THEN RatSub(share, Int2Rat(70))
                                        ELSE RatSub(Int2Rat(70), share)
                            twice == RatMul(Int2Rat(2), distance)
                        IN  /\ r.score = IF RatLe(twice, Int2Rat(100))
                                         THEN twice ELSE Int2Rat(100)
                            /\ RatLt(share, Int2Rat(65)) => r.status = "fail"

\* half of the spend is on exact match: score 40, status fail
C19_Witness ==
    /\ call.fn = "check_spend_split"
    /\ call.args.spend = [EXACT |-> 1, PHRASE |-> 1, BROAD |-> 0]
    /\ Len(outputs) > 0
    /\ outputs[1].result.score = Int2Rat(40)
    /\ outputs[1].result.status = "fail"


\* C20: check_rsa_count on N > 0 enabled search ad groups, k of which have
\* fewer than 2 enabled RSAs (an ad group without RSA rows counts 0),
\* returns the score 100 * k / N, a details table of exactly k rows, one for
\* each such ad group with its actual RSA count, and the status pass if
\* k = 0, warning if 0 < 100 * k / N <= 10, fail otherwise.
C20_RsaCount ==
    (call.fn = "check_rsa_count" /\ Len(call.args) > 0) =>
        \A c \in 1..Len(outputs) :
            LET r == outputs[c].result
                N == Len(call.args)
                short == {i \in 1..N : call.args[i] < 2}
                k == Cardinality(short)
            IN  /\ ~outputs[c].raised
                /\ r.score = Rat(100 * k, N)
                /\ r.details = k
                /\ Len(r.details_rows) = k
                /\ {row.ad_group_id : row \in {r.details_rows[j] : j \in 1..k}} = short
                /\ \A j \in 1..k :
                      r.details_rows[j].rsa_count = call.args[r.details_rows[j].ad_group_id]
                /\ r.status = IF k = 0 THEN "pass"
                              ELSE IF 100 * k <= 10 * N THEN "warning"
                              ELSE "fail"

\* 4 of 5 ad groups have one RSA, the fifth has 3: score 80, fail, 4 rows
C20_Witness ==
    /\ call.fn = "check_rsa_count"
    /\ call.args = <<1, 1, 1, 1, 3>>
    /\ Len(outputs) > 0
    /\ outputs[1].result.score = Int2Rat(80)
    /\ outputs[1].result.status = "fail"
    /\ outputs[1].result.details = 4


\* C21: PMax checks 14, 15, 17, 18 and 24, run through run_all_pmax_checks
\* on an account with at least one enabled PMax campaign (asset group for
\* check 17) and no failing query, return the score 100 * non_compliant /
\* total, a status from the check's band (pass at 0, warning up to 20, or up
\* to 10 for check 17, fail above) and never an error result.
C21_PMaxChecksScore ==
    (platform = "google" /\ faults = 0 /\ account.n > 0
     /\ DictHas(session_results, "PMax")) =>
        \A check_num \in {14, 15, 17, 18, 24} :
            LET res == DictGet(session_results, "PMax")
                r == DictGet(res, check_num)
                cutoff == IF check_num = 17 THEN 10 ELSE 20
            IN  /\ DictHas(res, check_num)
                /\ r.status # "error"
                /\ r.score = Pct(account.bad, account.n)
                /\ r.status = Band(r.score, cutoff)


C23_WeightedQualityScore ==
    call.fn = "check_weighted_quality_score" =>
        LET rows == call.args
            Floor == [brand |-> 9, non_brand |-> 7, competitor |-> 5]
            Types == {"brand", "non_brand", "competitor"}
            In(type) == {i \in 1..Len(rows) :
                            /\ rows[i].quality_score # None
                            /\ rows[i].quality_score # Int2Rat(0)
                            /\ ad_group_type(lower(rows[i].ad_group_name)) = type}
            W(type) == LET s[i \in 0..Len(rows)] ==
                               IF i = 0 THEN 0
                               ELSE s[i - 1] + (IF i \in In(type)
                                                THEN rows[i].quality_score[1] * rows[i].impressions
                                                ELSE 0)
                       IN  s[Len(rows)]
            I(type) == LET s[i \in 0..Len(rows)] ==
                               IF i = 0 THEN 0
                               ELSE s[i - 1] + (IF i \in In(type) THEN rows[i].impressions ELSE 0)
                       IN  s[Len(rows)]
            WithData == {type \in Types : In(type) # {}}
            Below(type) == W(type) < Floor[type] * I(type)
            Part(type) ==
                IF type \notin WithData \/ ~Below(type) THEN Int2Rat(0)
                ELSE IF 200 * (Floor[type] * I(type) - W(type)) >= 100 * Floor[type] * I(type)
                     THEN Int2Rat(100)
                     ELSE Rat(200 * (Floor[type] * I(type) - W(type)), Floor[type] * I(type))
            total == RatAdd(Part("brand"), RatAdd(Part("non_brand"), Part("competitor")))
        IN  \A k \in 1..Len(outputs) :
                /\ ~outputs[k].raised
                /\ outputs[k].result.status \in {"pass", "fail"}
                /\ outputs[k].result.status = "fail" <=> \E type \in WithData : Below(type)
                /\ WithData # {} =>
                       outputs[k].result.score = RatDiv(total, Int2Rat(Cardinality(WithData)))

\* brand keywords of quality 9 and 10 (9.5), a non-brand keyword of quality
\* 5 and no competitor keyword: score 200/7 (28.57) and fail
C23_Witness ==
    /\ call.fn = "check_weighted_quality_score"
    /\ Len(call.args) = 3
    /\ call.args[1].ad_group_name.word = "brand" /\ call.args[1].quality_score = Int2Rat(9)
    /\ call.args[2].ad_group_name.word = "branded shoes"
    /\ call.args[2].quality_score = Int2Rat(10)
    /\ call.args[3].ad_group_name.word = "shoes" /\ call.args[3].quality_score = Int2Rat(5)
    /\ call.args[3].impressions = 1
    /\ Len(outputs) > 0
    /\ outputs[1].result.score = Rat(200, 7)
    /\ outputs[1].result.status = "fail"
    /\ outputs[1].result.message = "Brand: 9.50, Non-Brand: 5.00, Competitor: N/A"


\* C24: check 10 puts a keyword in the brand segment if its lower-cased ad
\* group name contains 'brand' or 'branded', else in the competitor segment
\* if it contains 'competitor', 'competitive' or 'comp', else in the
\* non-brand segment (seen on calls with one scored keyword, whose quality
\* score the message shows under its segment).
C24_SegmentByAdGroupName ==
    (/\ call.fn = "check_weighted_quality_score"
     /\ Len(call.args) = 1
     /\ call.args[1].quality_score # None
     /\ call.args[1].quality_score # Int2Rat(0)) =>
        LET name == [word |-> call.args[1].ad_group_name.word, upper |-> FALSE]
            qs == Fmt2(call.args[1].quality_score)
            brand == str_in("brand", name) \/ str_in("branded", name)
            competitor == \/ str_in("competitor", name)
                          \/ str_in("competitive", name)
                          \/ str_in("comp", name)
            expected ==
                IF brand THEN "Brand: " \o qs \o ", Non-Brand: N/A, Competitor: N/A"
                ELSE IF competitor THEN "Brand: N/A, Non-Brand: N/A, Competitor: " \o qs
                ELSE "Brand: N/A, Non-Brand: " \o qs \o ", Competitor: N/A"
        IN  \A k \in 1..Len(outputs) :
                ~outputs[k].raised /\ outputs[k].result.message = expected

\* a keyword of the ad group "NON-BRAND" is counted in the brand segment
C24_Witness ==
    /\ call.fn = "check_weighted_quality_score"
    /\ Len(call.args) = 1
    /\ call.args[1].ad_group_name = [word |-> "non-brand", upper |-> TRUE]
    /\ call.args[1].quality_score = Int2Rat(7)
    /\ Len(outputs) > 0
    /\ outputs[1].result.message = "Brand: 7.00, Non-Brand: N/A, Competitor: N/A"
    /\ outputs[1].result.status = "fail"


\* C25: with U distinct RSA signatures (two RSAs have the same signature iff
\* their headlines are the same texts in any order and so are their
\* descriptions) and G > 0 ad groups with an enabled RSA, the score of
\* check_unique_rsas_ratio is min(max(0, 1 - U/G) * 100, 100) and the status
\* is pass exactly when U >= G, which is exactly when the score is 0, else
\* fail; with G = 0 the result is info with score None.
C25_UniqueRsasRatio ==
    call.fn = "check_unique_rsas_ratio" =>
        LET rows == call.args
            Count(seq, x) == Cardinality({i \in 1..Len(seq) : seq[i] = x})
            SameTexts(s, t) ==
                /\ Len(s) = Len(t)
                /\ \A i \in 1..Len(s) : Count(s, s[i]) = Count(t, s[i])
            Same(i, j) == /\ SameTexts(rows[i].headlines, rows[j].headlines)
                          /\ SameTexts(rows[i].descriptions, rows[j].descriptions)
            U == Cardinality({i \in 1..Len(rows) : \A j \in 1..(i - 1) : ~Same(i, j)})
            G == Cardinality({rows[i].ad_group : i \in 1..Len(rows)})
        IN  \A k \in 1..Len(outputs) :
                LET r == outputs[k].result
                IN  /\ ~outputs[k].raised
                    /\ IF G = 0 THEN r.status = "info" /\ r.score = None
                       ELSE /\ r.score = (IF U >= G THEN Int2Rat(0) ELSE Rat(100 * (G - U), G))
                            /\ r.status = (IF U >= G THEN "pass" ELSE "fail")
                            /\ r.status = "pass" <=> r.score = Int2Rat(0)

\* two ad groups whose RSAs carry the same two headlines in opposite order:
\* one signature for two ad groups, score 50 and fail
C25_Witness ==
    /\ call.fn = "check_unique_rsas_ratio"
    /\ Len(call.args) = 2
    /\ call.args[1] = [ad_group |-> 1, headlines |-> <<1, 2>>, descriptions |-> <<1>>]
    /\ call.args[2] = [ad_group |-> 2, headlines |-> <<2, 1>>, descriptions |-> <<1>>]
    /\ Len(outputs) > 0
    /\ outputs[1].result.score = Int2Rat(50)
    /\ outputs[1].result.status = "fail"


\* C26: in check_images_videos an asset group with a product feed is
\* compliant and never a details row; one without a feed is compliant iff it
\* has at least 5 images and at least 1 video; the score is 100 * (asset
\* groups in details) / (asset groups having an enabled asset row).
C26_ImagesVideos ==
    call.fn = "check_images_videos" =>
        LET groups == call.args
            total == Len(groups)
            Compliant(i) ==
                \/ groups[i].has_product_feed
                \/ (groups[i].images >= 5 /\ groups[i].videos >= 1)
            in_details == Cardinality({i \in 1..total : ~Compliant(i)})
        IN  \A k \in 1..Len(outputs) :
                /\ ~outputs[k].raised
                /\ outputs[k].result.details = in_details
                /\ total > 0 => outputs[k].result.score = Rat(100 * in_details, total)

\* two asset groups without media, one of them with a product feed: one
\* details row, score 50
C26_Witness ==
    /\ call.fn = "check_images_videos"
    /\ call.args = <<[images |-> 0, videos |-> 0, has_product_feed |-> TRUE],
                     [images |-> 0, videos |-> 0, has_product_feed |-> FALSE]>>
    /\ Len(outputs) > 0
    /\ outputs[1].result.score = Int2Rat(50)
    /\ outputs[1].result.details = 1
    /\ outputs[1].result.message
           = "1/2 asset groups meet media requirements (1 with product feed skipped)"


\* C27: the manual-verification checks (16, 27, 29, 30) return status info
\* and score None on every input, and their details table is never empty.
C27_ManualChecksDetails ==
    call.fn \in ManualChecks =>
        \A k \in 1..Len(outputs) :
            /\ ~outputs[k].raised
            /\ outputs[k].result.status = "info"
            /\ outputs[k].result.score = None
            /\ outputs[k].result.details >= 1


\* C28: calculate_overall_health_score leaves every result whose score is
\* None out of its average, whatever the result's status, and returns the
\* healthy default, 100, when no result is left to average.
C28_NoneScoresExcluded ==
    call.fn = "calculate_overall_health_score" =>
        LET given == call.args
            Scored == {i \in 1..Len(given) : given[i].score # None}
            total[i \in 0..Len(given)] ==
                IF i = 0 THEN Int2Rat(0)
                ELSE IF i \in Scored THEN RatAdd(total[i - 1], given[i].score)
                     ELSE total[i - 1]
            expected == IF Scored = {} THEN Int2Rat(100)
                        ELSE RatDiv(total[Len(given)], Int2Rat(Cardinality(Scored)))
        IN  \A k \in 1..Len(outputs) :
                ~outputs[k].raised /\ outputs[k].result = expected


\* C29: every Meta count-based check with a warning band (URL tags 20%,
\* pixel 30%, tracking coverage 10%, headlines and primary texts 30%,
\* descriptions 40%, call to action 20%) grades a table it can read as PASS
\* iff the affected count is 0, WARNING iff 0 < count < f * total and FAIL
\* iff count >= f * total.
C29_MetaWarningBand ==
    LET Percent == [check_url_tags_presence |-> 20, check_pixel_tracking |-> 30,
                    check_tracking_coverage |-> 10, check_headline_count |-> 30,
                    check_primary_text_count |-> 30, check_description_count |-> 40,
                    check_cta_presence |-> 20]
    IN  call.fn \in DOMAIN Percent =>
            \A k \in 1..Len(outputs) :
                (~outputs[k].raised /\ outputs[k].result.status # "INFO") =>
                    LET status == outputs[k].result.status
                        count == call.args.bad
                        total == call.args.n
                        f == Percent[call.fn]
                    IN  /\ outputs[k].result.count = count
                        /\ outputs[k].result.total = total
                        /\ status \in {"PASS", "WARNING", "FAIL"}
                        /\ status = "PASS" <=> count = 0
                        /\ status = "WARNING" <=> (0 < count /\ 100 * count < f * total)
                        /\ status = "FAIL" <=> 100 * count >= f * total

\* 1 of 10 ads without any tracking is exactly 10 %: FAIL; and 1 of 5 ads
\* without URL tags is exactly 20 %
C29_Witness ==
    /\ call.fn = "check_tracking_coverage"
    /\ call.args.n = 10
    /\ call.args.bad = 1
    /\ Len(outputs) > 0
    /\ ~outputs[1].raised
    /\ outputs[1].result.status = "FAIL"


\* C30: make_api_call sends at most max_retries requests; it returns the
\* body of the first 200 response; after a 429 or 403, an error code 4, 17,
\* 32 or 613, or a timeout it waits BASE_WAIT_TIME * 2^attempt seconds (5,
\* 10, 20, ...) and tries again; any other response makes it raise at once;
\* after max_retries such waits it raises 'Max retries reached for API
\* call'; and it always comes to an end.
C30_RetriesBoundedAndEnds ==
    /\ [](LET max_retries == call.args.max_retries
              attempts == Len(results)
              Retryable(r) ==
                  \/ r.kind = "Timeout"
                  \/ r.status_code \in {429, 403}
                  \/ (r.status_code # 200 /\ r.error_code \in {<<4>>, <<17>>, <<32>>, <<613>>})
          IN  /\ attempts <= max_retries
              /\ \A i \in 1..Len(outputs) : outputs[i] = 5 * (2 ^ (i - 1))
              /\ pc = "request" => Len(outputs) = attempts /\ attempts < max_retries
              /\ pc = "sleep" => Retryable(table) /\ Len(outputs) = attempts - 1
              /\ (pc = "done" /\ call.args.token_params) =>
                     /\ returned.raised <=> (attempts = 0 \/ table.status_code # 200)
                     /\ ~returned.raised =>
                            /\ returned.result = table.text
                            /\ Len(outputs) = attempts - 1
                     /\ (returned.raised /\ attempts > 0 /\ ~Retryable(table)) =>
                            /\ returned.exc # "Max retries reached for API call"
                            /\ Len(outputs) = attempts - 1
                     /\ (attempts = 0 \/ Retryable(table)) =>
                            /\ returned.exc = "Max retries reached for API call"
                            /\ Len(outputs) = max_retries
                            /\ attempts = max_retries)
    /\ <>(pc = "done")

\* five requests were rate limited or timed out: waits of 5, 10, 20, 40 and
\* 80 seconds, then 'Max retries reached for API call'
C30_Witness ==
    /\ call.fn = "make_api_call"
    /\ call.args.max_retries = 5
    /\ pc = "done"
    /\ Len(results) = 5
    /\ outputs = <<5, 10, 20, 40, 80>>
    /\ table.kind = "Timeout"
    /\ returned = Raise("Max retries reached for API call")

=============================================================================
